---- MODULE Spec2Model ----
(***************************************************************************)
(* Veilstar Brawl: the zk-betting contract (contracts/zk-betting/src/lib.rs) *)
(* as a state machine.  Every entrypoint is an operator over the persisted  *)
(* store that returns the result of the call together with the store as the *)
(* handler's writes left it; the Soroban host then keeps these writes only  *)
(* when the call returned Ok (HostFrame).  One action per entrypoint.       *)
(***************************************************************************)
EXTENDS Integers, Sequences, FiniteSets, TLC

(* ------------------------------------------------------------------------ *)
(* Bounds of the model                                                       *)
(* ------------------------------------------------------------------------ *)
MaxPools == 2          \* create_pool is called at most this often
MaxBets == 2           \* commit_bet succeeds at most this often, over all pools
MaxTicks == 2          \* the ledger clock advances at most this often
TickSeconds == 43200   \* one step of the ledger clock, in seconds
StartTs == 86400       \* ledger timestamp of the first call
InitialBalance == 3030000  \* tokens each bettor holds at the start
PlayerBalance == 10011000  \* tokens each player holds at the start
MaxMoves == 1          \* submit_move and submit_power_surge succeed at most this often per match
MaxSlots == 2          \* round-gate slots that receive a commitment, at most
MaxLedgers == 1        \* the ledger sequence number advances at most this often
StartSequence == 1     \* ledger sequence number of the first call
MaxKeys == 2           \* set_verification_key succeeds at most this often
GroupOrder == 7        \* the order of the group that stands for BN254

(* ------------------------------------------------------------------------ *)
(* Program constants                                                         *)
(* ------------------------------------------------------------------------ *)
SIDE_NONE == 255
SIDE_P1 == 0
SIDE_P2 == 1
FEE_BPS == 100
SWEEP_INTERVAL_SECONDS == 86400
MIN_BET_STROOPS == 1000000
PROOF_LEN == 256
\* contracts/veilstar-brawl
STAKE_FEE_BPS == 10
MOVE_COST_STROOPS == 1000
RESERVE_STROOPS == 100000000
FEE_SWEEP_INTERVAL_SECONDS == 86400
STAKE_DEPOSIT_WINDOW_SECONDS == 60
\* contracts/zk-groth16-verifier
PROOF_GROTH16_BYTES_LEN == 256

(* ------------------------------------------------------------------------ *)
(* Addresses, inputs                                                         *)
(* ------------------------------------------------------------------------ *)
Admin == "admin"
Treasury == "treasury"
Contract == "contract"
Bettors == {"b1", "b2"}
Accounts == Bettors \cup {Contract, Treasury}
Signers == Bettors \cup {Admin}
\* Who calls an entrypoint that asks for the bettor's authorisation, and who
\* calls one that asks for the admin's: the right signer or a wrong one.
BettorCallers(bettor) == {bettor, Admin}
AdminCallers == {Admin, "b1"}

NoneVal == "none"
VerifierAddr == "verifier"
VkIds == {7, 8}

PoolStatus == {"Open", "Locked", "Settled", "Refunded"}
BetSide == {"Player1", "Player2"}
Salts == {1, 2}          \* the salts a reveal may present
CommitSalts == {1}       \* the salts the bettors of the model commit with
Amounts == {MIN_BET_STROOPS - 1, MIN_BET_STROOPS, 2 * MIN_BET_STROOPS}
Deadlines == {0, StartTs}
PoolIds == 1 .. MaxPools

\* A BytesN<32> value that is all zero except its last four bytes, as
\* test.rs builds it with u32_to_bytes32: <<the first 28 bytes, the last 4>>.
u32_to_bytes32(value) == <<0, value>>
\* BytesN::from_array(&[b; 32]): every byte equal to b.
bytes32_fill(b) == <<b, b>>
match_id == bytes32_fill(1)
MatchIds == {match_id}

\* The side byte of the preimage (reveal_bet_internal) and the u32 stored in
\* the bet and the pool.
side_byte(side) == IF side = "Player1" THEN 0 ELSE 1
side_u32(side) == IF side = "Player1" THEN SIDE_P1 ELSE SIDE_P2

\* env.crypto().sha256 of the preimage side_byte || salt: a collision-free
\* digest of the byte string (the byte string is a sequence of its parts).
sha256(preimage) == 1000 + (16 * preimage[1]) + preimage[2]
make_commitment(side, salt) == sha256(<<side_byte(side)>> \o <<salt>>)
Commitments == {make_commitment(s, t) : s \in BetSide, t \in CommitSalts}

\* The public inputs a caller may hand to settle_pool_zk.
PublicInputs ==
  {<<>>,
   <<match_id, u32_to_bytes32(1), u32_to_bytes32(SIDE_P1)>>,
   <<match_id, u32_to_bytes32(1), u32_to_bytes32(SIDE_P2)>>,
   <<match_id, u32_to_bytes32(2), u32_to_bytes32(SIDE_P1)>>,
   <<bytes32_fill(2), u32_to_bytes32(1), u32_to_bytes32(SIDE_P1)>>}
ProofLens == {PROOF_LEN - 1, PROOF_LEN}

\* contracts/veilstar-brawl: the game contract, its hub, the two players of the
\* tests and the inputs of the round gate.
Brawl == "brawl"
Players == {"p1", "p2"}
BrawlAccounts == Players \cup {Brawl, Treasury}
SessionIds == {1}
Points == 100000
\* The stakes the admin may configure: none, one whose fee is rounded up, and
\* the stake of the tests.
StakeAmounts == {0, 1500, 10000000}
\* The amounts the fee is worked out for: around the first multiples of
\* 10000 / bps for both rates, the smallest bet and the stake of the tests.
FeeAmounts ==
  (1 .. 210) \cup (990 .. 1010) \cup (1990 .. 2010)
    \cup {1500, MIN_BET_STROOPS, MIN_BET_STROOPS + 1, 10000000, 10000001}
\* What the token's admin mints to the game contract: just short of the
\* reserve plus half the fees of a match, or twice the reserve.
MintAmounts == {RESERVE_STROOPS - 10000, 2 * RESERVE_STROOPS}
\* Who authorises a start_game call: both players, or the first one alone.
StartSigners(player1, player2) == {{player1, player2}, {player1}}
\* Who calls an entrypoint that asks for a player's authorisation.
PlayerCallers(player) == {player, Admin}
Rounds == {0, 1}
Turns == {0, 1, 2}
GateCommitments == {1, 2}
\* BytesN::from_array(&[0u8; 32]), the vk id that stands for "none configured".
ZeroVkId == 0
GateVkIds == {ZeroVkId} \cup VkIds
GateProofLens == {0, PROOF_LEN - 1, PROOF_LEN}
GateInputs == {<<>>, <<bytes32_fill(5)>>}

\* contracts/zk-groth16-verifier.  The BN254 groups are stood for by the
\* integers modulo GroupOrder: a point is a number below GroupOrder, group
\* addition is addition, and the pairing of a G1 and a G2 point is their
\* product.  A byte string that is no point of the curve is InvalidPoint.
InvalidPoint == GroupOrder
KeyMaterial == {1, 2}
G1Points == KeyMaterial \cup {InvalidPoint}
\* ic has one point more than the key takes public inputs.
IcLists == {<<>>, <<1>>, <<1, 2>>}
VerifierInputs == {<<>>, <<bytes32_fill(5)>>, <<bytes32_fill(5), bytes32_fill(6)>>}
\* A proof is its length and, when it is long enough, the three points in it.
VerifierProofLens == {0, PROOF_GROTH16_BYTES_LEN - 1, PROOF_GROTH16_BYTES_LEN}
Proofs == [len : VerifierProofLens, a : G1Points, b : KeyMaterial, c : G1Points]
VerifierCallers == {Admin, "mallory"}

(* ------------------------------------------------------------------------ *)
(* State                                                                     *)
(* ------------------------------------------------------------------------ *)
VARIABLES
  pools,          \* DataKey::Pool(id) -> BetPool
  bets,           \* DataKey::Bet(id, bettor) -> BetCommit
  pool_bettors,   \* DataKey::PoolBettors(id) -> Vec<Address>
  fee_accrued,    \* DataKey::FeeAccrued
  last_sweep_ts,  \* DataKey::LastSweepTs
  pool_counter,   \* DataKey::PoolCounter
  zk_verifier,    \* DataKey::ZkVerifier (NoneVal while not set)
  zk_vk_id,       \* DataKey::ZkVkId: <<>> while not set, <<id>> once set
  balance,        \* the token ledger: account -> balance
  now,            \* env.ledger().timestamp()
  ticks,          \* how often the clock has advanced
  escrow_in,      \* history: pool -> tokens commit_bet moved into the contract
  paid_out,       \* history: pool -> tokens the claim entrypoints paid out
  refunded,       \* history: pool -> tokens refund_pool paid back
  swept,          \* history: tokens sweep_treasury moved to the treasury
  claim_tried,    \* history: (pool, bettor) whose claim returned Ok or NoPayout
  zk_settled      \* history: the calls of settle_pool_zk that returned Ok

\* contracts/veilstar-brawl
VARIABLES
  matches,               \* DataKey::Match(session) -> Match
  match_salt,            \* DataKey::MatchSalt(session) -> BytesN<32>
  zk_commit,             \* DataKey::ZkCommit(session, salt, round, turn, is_p1)
  zk_verified,           \* DataKey::ZkVerified(session, salt, round, turn, is_p1)
  zk_match_outcome,      \* DataKey::ZkMatchOutcome(session)
  zk_gate_required,      \* DataKey::ZkGateRequired
  zk_verifier_contract,  \* DataKey::ZkVerifierContractAddress (NoneVal: not set)
  zk_verifier_vk_id,     \* DataKey::ZkVerifierVkId
  brawl_fee_accrued,     \* DataKey::FeeAccrued
  brawl_last_sweep_ts,   \* DataKey::LastSweepTs
  brawl_balance,         \* the token ledger as the game contract uses it
  ledger_sequence,       \* env.ledger().sequence()
  ledgers                \* how often the sequence number has advanced

\* contracts/zk-groth16-verifier
VARIABLES
  verification_keys,     \* DataKey::VerificationKey(vk_id) -> Groth16VerificationKey
  vk_used,               \* history: the vk ids a verify_round_proof call has read
  verdicts,              \* history: the calls of verify_round_proof and results
  keys_set               \* history: how many set_verification_key calls went through

betting_vars ==
  <<pools, bets, pool_bettors, fee_accrued, last_sweep_ts, pool_counter,
    zk_verifier, zk_vk_id, balance, now, ticks, escrow_in, paid_out,
    refunded, swept, claim_tried, zk_settled>>
brawl_vars ==
  <<matches, match_salt, zk_commit, zk_verified, zk_match_outcome,
    zk_gate_required, zk_verifier_contract, zk_verifier_vk_id,
    brawl_fee_accrued, brawl_last_sweep_ts, brawl_balance, ledger_sequence,
    ledgers>>
verifier_vars == <<verification_keys, vk_used, verdicts, keys_set>>

vars == <<betting_vars, brawl_vars, verifier_vars>>

\* The persisted state an entrypoint reads and writes.
Store ==
  [pools |-> pools, bets |-> bets, pool_bettors |-> pool_bettors,
   fee_accrued |-> fee_accrued, last_sweep_ts |-> last_sweep_ts,
   pool_counter |-> pool_counter, zk_verifier |-> zk_verifier,
   zk_vk_id |-> zk_vk_id, balance |-> balance]

(* ------------------------------------------------------------------------ *)
(* Results of a call                                                         *)
(* ------------------------------------------------------------------------ *)
\* Ok(value) with the store as written.
Ok(st, val) == [res |-> "Ok", val |-> val, st |-> st]
\* Err(Error::e), with the store as the handler had written it when it returned.
Err(st, e) == [res |-> e, val |-> 0, st |-> st]
\* A panic or a failed host call (require_auth, a token transfer that fails).
Trap(st) == [res |-> "HostError", val |-> 0, st |-> st]

\* The host's frame around a contract call: the writes of a call that returns
\* Err or traps are discarded, those of a call that returns Ok are kept.
HostFrame_keep_writes(before, r) == r.st
HostFrame(before, r) == IF r.res = "Ok" THEN r.st ELSE before

\* token::Client::transfer: fails when the sender's balance is too small.
transfer(bal, from, to, amount) ==
  IF amount < 0 \/ bal[from] < amount
    THEN [ok |-> FALSE, balance |-> bal]
    ELSE [ok |-> TRUE,
          balance |-> [a \in DOMAIN bal |->
                         IF a = from /\ a = to THEN bal[a]
                         ELSE IF a = from THEN bal[a] - amount
                         ELSE IF a = to THEN bal[a] + amount
                         ELSE bal[a]]]

\* Address::require_auth: the call carries the signer's authorisation only.
require_auth(signer, who) == signer = who
\* require_admin: the admin is set by the constructor and must authorise.
require_admin(signer) == require_auth(signer, Admin)

\* 1% = 100 bps, rounded up.
calc_fee_floor(amount) == (amount * FEE_BPS) \div 10000
calc_fee(amount) == ((amount * FEE_BPS) + 9999) \div 10000

(* ------------------------------------------------------------------------ *)
(* Entrypoints                                                               *)
(* ------------------------------------------------------------------------ *)
new_pool(id, mid, deadline_ts) ==
  [pool_id |-> id, match_id |-> mid, status |-> "Open",
   player1_total |-> 0, player2_total |-> 0, total_pool |-> 0,
   total_fees |-> 0, bet_count |-> 0, reveal_count |-> 0,
   deadline_ts |-> deadline_ts, winner_side |-> SIDE_NONE]


\* create_pool that does not move the counter on once a pool exists.
create_pool_reuses_id(st, signer, mid, deadline_ts) ==
  IF ~require_admin(signer) THEN Trap(st)
  ELSE
    LET counter == IF st.pool_counter = 0 THEN 1 ELSE st.pool_counter
    IN Ok([st EXCEPT !.pools = (counter :> new_pool(counter, mid, deadline_ts)) @@ @,
                     !.pool_bettors = (counter :> <<>>) @@ @,
                     !.pool_counter = counter],
          counter)

create_pool(st, signer, mid, deadline_ts) ==
  IF ~require_admin(signer) THEN Trap(st)
  ELSE
    LET counter == st.pool_counter + 1
    IN Ok([st EXCEPT !.pools = (counter :> new_pool(counter, mid, deadline_ts)) @@ @,
                     !.pool_bettors = (counter :> <<>>) @@ @,
                     !.pool_counter = counter],
          counter)

\* commit_bet without the check for an existing bet of the bettor in the pool.
commit_bet_no_duplicate_check(st, ts, signer, pool_id, bettor, commitment, amount) ==
  IF ~require_auth(signer, bettor) THEN Trap(st)
  ELSE IF amount < MIN_BET_STROOPS THEN Err(st, "InvalidAmount")
  ELSE IF pool_id \notin DOMAIN st.pools THEN Err(st, "PoolNotFound")
  ELSE
    LET pool == st.pools[pool_id]
        bet_key == <<pool_id, bettor>>
        fee == calc_fee(amount)
        t == transfer(st.balance, bettor, Contract, amount + fee)
        bet == [bettor |-> bettor, commitment |-> commitment, amount |-> amount,
                fee_paid |-> fee, revealed |-> FALSE, side |-> SIDE_NONE,
                claimed |-> FALSE]
    IN
      IF pool.status # "Open" THEN Err(st, "PoolNotOpen")
      ELSE IF pool.deadline_ts > 0 /\ ts > pool.deadline_ts
        THEN Err(st, "BettingDeadlinePassed")
      ELSE IF ~t.ok THEN Trap(st)
      ELSE
        Ok([st EXCEPT
              !.balance = t.balance,
              !.bets = (bet_key :> bet) @@ @,
              !.pool_bettors[pool_id] = Append(@, bettor),
              !.pools[pool_id] =
                 [pool EXCEPT !.total_pool = @ + amount,
                              !.total_fees = @ + fee,
                              !.bet_count = @ + 1]],
           0)

\* commit_bet that transfers the amount without the fee it records.
commit_bet_charges_amount_only(st, ts, signer, pool_id, bettor, commitment, amount) ==
  IF ~require_auth(signer, bettor) THEN Trap(st)
  ELSE IF amount < MIN_BET_STROOPS THEN Err(st, "InvalidAmount")
  ELSE IF pool_id \notin DOMAIN st.pools THEN Err(st, "PoolNotFound")
  ELSE
    LET pool == st.pools[pool_id]
        bet_key == <<pool_id, bettor>>
        fee == calc_fee(amount)
        t == transfer(st.balance, bettor, Contract, amount)
        bet == [bettor |-> bettor, commitment |-> commitment, amount |-> amount,
                fee_paid |-> fee, revealed |-> FALSE, side |-> SIDE_NONE,
                claimed |-> FALSE]
    IN
      IF pool.status # "Open" THEN Err(st, "PoolNotOpen")
      ELSE IF pool.deadline_ts > 0 /\ ts > pool.deadline_ts
        THEN Err(st, "BettingDeadlinePassed")
      ELSE IF bet_key \in DOMAIN st.bets THEN Err(st, "AlreadyCommitted")
      ELSE IF ~t.ok THEN Trap(st)
      ELSE
        Ok([st EXCEPT
              !.balance = t.balance,
              !.bets = (bet_key :> bet) @@ @,
              !.pool_bettors[pool_id] = Append(@, bettor),
              !.pools[pool_id] =
                 [pool EXCEPT !.total_pool = @ + amount,
                              !.total_fees = @ + fee,
                              !.bet_count = @ + 1]],
           0)

\* commit_bet that refuses a bet at the deadline itself.
commit_bet_deadline_exclusive(st, ts, signer, pool_id, bettor, commitment, amount) ==
  IF ~require_auth(signer, bettor) THEN Trap(st)
  ELSE IF amount < MIN_BET_STROOPS THEN Err(st, "InvalidAmount")
  ELSE IF pool_id \notin DOMAIN st.pools THEN Err(st, "PoolNotFound")
  ELSE
    LET pool == st.pools[pool_id]
        bet_key == <<pool_id, bettor>>
        fee == calc_fee(amount)
        required == amount + fee
        t == transfer(st.balance, bettor, Contract, required)
        bet == [bettor |-> bettor, commitment |-> commitment, amount |-> amount,
                fee_paid |-> fee, revealed |-> FALSE, side |-> SIDE_NONE,
                claimed |-> FALSE]
    IN
      IF pool.status # "Open" THEN Err(st, "PoolNotOpen")
      ELSE IF pool.deadline_ts > 0 /\ ts >= pool.deadline_ts
        THEN Err(st, "BettingDeadlinePassed")
      ELSE IF bet_key \in DOMAIN st.bets THEN Err(st, "AlreadyCommitted")
      ELSE IF ~t.ok THEN Trap(st)
      ELSE
        Ok([st EXCEPT
              !.balance = t.balance,
              !.bets = (bet_key :> bet) @@ @,
              !.pool_bettors[pool_id] = Append(@, bettor),
              !.pools[pool_id] =
                 [pool EXCEPT !.total_pool = @ + amount,
                              !.total_fees = @ + fee,
                              !.bet_count = @ + 1]],
           0)


\* commit_bet that stores the bet, the bettor and the totals before the
\* transfer is made.
commit_bet_writes_first(st, ts, signer, pool_id, bettor, commitment, amount) ==
  IF ~require_auth(signer, bettor) THEN Trap(st)
  ELSE IF amount < MIN_BET_STROOPS THEN Err(st, "InvalidAmount")
  ELSE IF pool_id \notin DOMAIN st.pools THEN Err(st, "PoolNotFound")
  ELSE
    LET pool == st.pools[pool_id]
        bet_key == <<pool_id, bettor>>
        fee == calc_fee(amount)
        required == amount + fee
        t == transfer(st.balance, bettor, Contract, required)
        bet == [bettor |-> bettor, commitment |-> commitment, amount |-> amount,
                fee_paid |-> fee, revealed |-> FALSE, side |-> SIDE_NONE,
                claimed |-> FALSE]
        written == [st EXCEPT
                      !.bets = (bet_key :> bet) @@ @,
                      !.pool_bettors[pool_id] = Append(@, bettor),
                      !.pools[pool_id] =
                         [pool EXCEPT !.total_pool = @ + amount,
                                      !.total_fees = @ + fee,
                                      !.bet_count = @ + 1]]
    IN
      IF pool.status # "Open" THEN Err(st, "PoolNotOpen")
      ELSE IF pool.deadline_ts > 0 /\ ts > pool.deadline_ts
        THEN Err(st, "BettingDeadlinePassed")
      ELSE IF bet_key \in DOMAIN st.bets THEN Err(st, "AlreadyCommitted")
      ELSE IF ~t.ok THEN Trap(written)
      ELSE Ok([written EXCEPT !.balance = t.balance], 0)


\* commit_bet that adds the amount to player1_total when the bet is stored.
commit_bet_adds_side_total(st, ts, signer, pool_id, bettor, commitment, amount) ==
  IF ~require_auth(signer, bettor) THEN Trap(st)
  ELSE IF amount < MIN_BET_STROOPS THEN Err(st, "InvalidAmount")
  ELSE IF pool_id \notin DOMAIN st.pools THEN Err(st, "PoolNotFound")
  ELSE
    LET pool == st.pools[pool_id]
        bet_key == <<pool_id, bettor>>
        fee == calc_fee(amount)
        required == amount + fee
        t == transfer(st.balance, bettor, Contract, required)
        bet == [bettor |-> bettor, commitment |-> commitment, amount |-> amount,
                fee_paid |-> fee, revealed |-> FALSE, side |-> SIDE_NONE,
                claimed |-> FALSE]
    IN
      IF pool.status # "Open" THEN Err(st, "PoolNotOpen")
      ELSE IF pool.deadline_ts > 0 /\ ts > pool.deadline_ts
        THEN Err(st, "BettingDeadlinePassed")
      ELSE IF bet_key \in DOMAIN st.bets THEN Err(st, "AlreadyCommitted")
      ELSE IF ~t.ok THEN Trap(st)
      ELSE
        Ok([st EXCEPT
              !.balance = t.balance,
              !.bets = (bet_key :> bet) @@ @,
              !.pool_bettors[pool_id] = Append(@, bettor),
              !.pools[pool_id] =
                 [pool EXCEPT !.total_pool = @ + amount,
                              !.total_fees = @ + fee,
                              !.bet_count = @ + 1,
                              !.player1_total = @ + amount]],
           0)

commit_bet(st, ts, signer, pool_id, bettor, commitment, amount) ==
  IF ~require_auth(signer, bettor) THEN Trap(st)
  ELSE IF amount < MIN_BET_STROOPS THEN Err(st, "InvalidAmount")
  ELSE IF pool_id \notin DOMAIN st.pools THEN Err(st, "PoolNotFound")
  ELSE
    LET pool == st.pools[pool_id]
        bet_key == <<pool_id, bettor>>
        fee == calc_fee(amount)
        required == amount + fee
        t == transfer(st.balance, bettor, Contract, required)
        bet == [bettor |-> bettor, commitment |-> commitment, amount |-> amount,
                fee_paid |-> fee, revealed |-> FALSE, side |-> SIDE_NONE,
                claimed |-> FALSE]
    IN
      IF pool.status # "Open" THEN Err(st, "PoolNotOpen")
      ELSE IF pool.deadline_ts > 0 /\ ts > pool.deadline_ts
        THEN Err(st, "BettingDeadlinePassed")
      ELSE IF bet_key \in DOMAIN st.bets THEN Err(st, "AlreadyCommitted")
      ELSE IF ~t.ok THEN Trap(st)
      ELSE
        Ok([st EXCEPT
              !.balance = t.balance,
              !.bets = (bet_key :> bet) @@ @,
              !.pool_bettors[pool_id] = Append(@, bettor),
              !.pools[pool_id] =
                 [pool EXCEPT !.total_pool = @ + amount,
                              !.total_fees = @ + fee,
                              !.bet_count = @ + 1]],
           0)


\* lock_pool without the check that the pool is Open.
lock_pool_any_status(st, signer, pool_id) ==
  IF ~require_admin(signer) THEN Trap(st)
  ELSE IF pool_id \notin DOMAIN st.pools THEN Err(st, "PoolNotFound")
  ELSE Ok([st EXCEPT !.pools[pool_id].status = "Locked"], 0)

lock_pool(st, signer, pool_id) ==
  IF ~require_admin(signer) THEN Trap(st)
  ELSE IF pool_id \notin DOMAIN st.pools THEN Err(st, "PoolNotFound")
  ELSE IF st.pools[pool_id].status # "Open" THEN Err(st, "PoolAlreadyLocked")
  ELSE Ok([st EXCEPT !.pools[pool_id].status = "Locked"], 0)

\* reveal_bet_internal without the comparison of the recomputed hash with the
\* stored commitment.
reveal_bet_internal_accepts_any(st, pool_id, bettor, side, salt) ==
  IF pool_id \notin DOMAIN st.pools THEN Err(st, "PoolNotFound")
  ELSE IF st.pools[pool_id].status # "Locked" THEN Err(st, "PoolNotLocked")
  ELSE IF <<pool_id, bettor>> \notin DOMAIN st.bets THEN Err(st, "BetNotFound")
  ELSE
    LET pool == st.pools[pool_id]
        bet_key == <<pool_id, bettor>>
        bet == st.bets[bet_key]
    IN
      IF bet.revealed THEN Err(st, "AlreadyRevealed")
      ELSE
        Ok([st EXCEPT
              !.bets[bet_key] = [bet EXCEPT !.revealed = TRUE,
                                            !.side = side_u32(side)],
              !.pools[pool_id] =
                 [pool EXCEPT
                    !.player1_total = IF side = "Player1" THEN @ + bet.amount ELSE @,
                    !.player2_total = IF side = "Player2" THEN @ + bet.amount ELSE @,
                    !.reveal_count = @ + 1]],
           0)

\* reveal_bet_internal that adds every revealed amount to player1_total.
reveal_bet_internal_one_total(st, pool_id, bettor, side, salt) ==
  IF pool_id \notin DOMAIN st.pools THEN Err(st, "PoolNotFound")
  ELSE IF st.pools[pool_id].status # "Locked" THEN Err(st, "PoolNotLocked")
  ELSE IF <<pool_id, bettor>> \notin DOMAIN st.bets THEN Err(st, "BetNotFound")
  ELSE
    LET pool == st.pools[pool_id]
        bet_key == <<pool_id, bettor>>
        bet == st.bets[bet_key]
    IN
      IF bet.revealed THEN Err(st, "AlreadyRevealed")
      ELSE IF sha256(<<side_byte(side)>> \o <<salt>>) # bet.commitment
        THEN Err(st, "InvalidReveal")
      ELSE
        Ok([st EXCEPT
              !.bets[bet_key] = [bet EXCEPT !.revealed = TRUE,
                                            !.side = side_u32(side)],
              !.pools[pool_id] =
                 [pool EXCEPT !.player1_total = @ + bet.amount,
                              !.reveal_count = @ + 1]],
           0)

\* reveal_bet_internal without the check that the bet is unrevealed.
reveal_bet_internal_reveals_again(st, pool_id, bettor, side, salt) ==
  IF pool_id \notin DOMAIN st.pools THEN Err(st, "PoolNotFound")
  ELSE IF st.pools[pool_id].status # "Locked" THEN Err(st, "PoolNotLocked")
  ELSE IF <<pool_id, bettor>> \notin DOMAIN st.bets THEN Err(st, "BetNotFound")
  ELSE
    LET pool == st.pools[pool_id]
        bet_key == <<pool_id, bettor>>
        bet == st.bets[bet_key]
        preimage == <<side_byte(side)>> \o <<salt>>
        computed == sha256(preimage)
    IN
      IF computed # bet.commitment THEN Err(st, "InvalidReveal")
      ELSE
        Ok([st EXCEPT
              !.bets[bet_key] = [bet EXCEPT !.revealed = TRUE,
                                            !.side = side_u32(side)],
              !.pools[pool_id] =
                 [pool EXCEPT
                    !.player1_total = IF side = "Player1" THEN @ + bet.amount ELSE @,
                    !.player2_total = IF side = "Player2" THEN @ + bet.amount ELSE @,
                    !.reveal_count = @ + 1]],
           0)


\* reveal_bet_internal that marks the bet revealed without counting it.
reveal_bet_internal_not_counted(st, pool_id, bettor, side, salt) ==
  IF pool_id \notin DOMAIN st.pools THEN Err(st, "PoolNotFound")
  ELSE IF st.pools[pool_id].status # "Locked" THEN Err(st, "PoolNotLocked")
  ELSE IF <<pool_id, bettor>> \notin DOMAIN st.bets THEN Err(st, "BetNotFound")
  ELSE
    LET pool == st.pools[pool_id]
        bet_key == <<pool_id, bettor>>
        bet == st.bets[bet_key]
        preimage == <<side_byte(side)>> \o <<salt>>
        computed == sha256(preimage)
    IN
      IF bet.revealed THEN Err(st, "AlreadyRevealed")
      ELSE IF computed # bet.commitment THEN Err(st, "InvalidReveal")
      ELSE
        Ok([st EXCEPT
              !.bets[bet_key] = [bet EXCEPT !.revealed = TRUE,
                                            !.side = side_u32(side)],
              !.pools[pool_id] =
                 [pool EXCEPT
                    !.player1_total = IF side = "Player1" THEN @ + bet.amount ELSE @,
                    !.player2_total = IF side = "Player2" THEN @ + bet.amount ELSE @]],
           0)

reveal_bet_internal(st, pool_id, bettor, side, salt) ==
  IF pool_id \notin DOMAIN st.pools THEN Err(st, "PoolNotFound")
  ELSE IF st.pools[pool_id].status # "Locked" THEN Err(st, "PoolNotLocked")
  ELSE IF <<pool_id, bettor>> \notin DOMAIN st.bets THEN Err(st, "BetNotFound")
  ELSE
    LET pool == st.pools[pool_id]
        bet_key == <<pool_id, bettor>>
        bet == st.bets[bet_key]
        preimage == <<side_byte(side)>> \o <<salt>>
        computed == sha256(preimage)
    IN
      IF bet.revealed THEN Err(st, "AlreadyRevealed")
      ELSE IF computed # bet.commitment THEN Err(st, "InvalidReveal")
      ELSE
        Ok([st EXCEPT
              !.bets[bet_key] = [bet EXCEPT !.revealed = TRUE,
                                            !.side = side_u32(side)],
              !.pools[pool_id] =
                 [pool EXCEPT
                    !.player1_total = IF side = "Player1" THEN @ + bet.amount ELSE @,
                    !.player2_total = IF side = "Player2" THEN @ + bet.amount ELSE @,
                    !.reveal_count = @ + 1]],
           0)

reveal_bet(st, signer, pool_id, bettor, side, salt) ==
  IF ~require_auth(signer, bettor) THEN Trap(st)
  ELSE reveal_bet_internal(st, pool_id, bettor, side, salt)

\* admin_reveal_bet that takes the admin's word for the side.
admin_reveal_bet_unchecked(st, signer, pool_id, bettor, side, salt) ==
  IF ~require_admin(signer) THEN Trap(st)
  ELSE reveal_bet_internal_accepts_any(st, pool_id, bettor, side, salt)

admin_reveal_bet(st, signer, pool_id, bettor, side, salt) ==
  IF ~require_admin(signer) THEN Trap(st)
  ELSE reveal_bet_internal(st, pool_id, bettor, side, salt)

\* settle_pool without the check that the pool is not yet Settled or Refunded.
settle_pool_settles_again(st, signer, pool_id, winner) ==
  IF ~require_admin(signer) THEN Trap(st)
  ELSE IF pool_id \notin DOMAIN st.pools THEN Err(st, "PoolNotFound")
  ELSE
    Ok([st EXCEPT
          !.pools[pool_id] = [@ EXCEPT !.status = "Settled",
                                       !.winner_side = side_u32(winner)],
          !.fee_accrued = @ + st.pools[pool_id].total_fees],
       0)

\* settle_pool that accrues the stakes of the pool instead of its fees.
settle_pool_accrues_total_pool(st, signer, pool_id, winner) ==
  IF ~require_admin(signer) THEN Trap(st)
  ELSE IF pool_id \notin DOMAIN st.pools THEN Err(st, "PoolNotFound")
  ELSE IF st.pools[pool_id].status \in {"Settled", "Refunded"}
    THEN Err(st, "PoolAlreadySettled")
  ELSE
    Ok([st EXCEPT
          !.pools[pool_id] = [@ EXCEPT !.status = "Settled",
                                       !.winner_side = side_u32(winner)],
          !.fee_accrued = @ + st.pools[pool_id].total_pool],
       0)


\* settle_pool that sets the status and leaves winner_side as it was.
settle_pool_no_winner_side(st, signer, pool_id, winner) ==
  IF ~require_admin(signer) THEN Trap(st)
  ELSE IF pool_id \notin DOMAIN st.pools THEN Err(st, "PoolNotFound")
  ELSE IF st.pools[pool_id].status \in {"Settled", "Refunded"}
    THEN Err(st, "PoolAlreadySettled")
  ELSE
    Ok([st EXCEPT
          !.pools[pool_id] = [@ EXCEPT !.status = "Settled"],
          !.fee_accrued = @ + st.pools[pool_id].total_fees],
       0)

settle_pool(st, signer, pool_id, winner) ==
  IF ~require_admin(signer) THEN Trap(st)
  ELSE IF pool_id \notin DOMAIN st.pools THEN Err(st, "PoolNotFound")
  ELSE IF st.pools[pool_id].status \in {"Settled", "Refunded"}
    THEN Err(st, "PoolAlreadySettled")
  ELSE
    Ok([st EXCEPT
          !.pools[pool_id] = [@ EXCEPT !.status = "Settled",
                                       !.winner_side = side_u32(winner)],
          !.fee_accrued = @ + st.pools[pool_id].total_fees],
       0)

\* settle_pool_zk that does not look at what the verifier returned.
settle_pool_zk_ignores_verdict(st, signer, pool_id, winner, vk_id, proof_len, public_inputs, verified) ==
  IF ~require_admin(signer) THEN Trap(st)
  ELSE IF st.zk_verifier = NoneVal THEN Err(st, "ZkVerifierNotConfigured")
  ELSE IF st.zk_vk_id = <<>> THEN Err(st, "ZkVerifierNotConfigured")
  ELSE IF vk_id # st.zk_vk_id[1] THEN Err(st, "ZkProofInvalid")
  ELSE IF proof_len # 256 \/ Len(public_inputs) < 1 THEN Err(st, "ZkProofInvalid")
  ELSE settle_pool(st, signer, pool_id, winner)

\* `verified` is what the verifier contract at the configured address returns
\* from verify_round_proof(vk_id, proof, public_inputs).
settle_pool_zk(st, signer, pool_id, winner, vk_id, proof_len, public_inputs, verified) ==
  IF ~require_admin(signer) THEN Trap(st)
  ELSE IF st.zk_verifier = NoneVal THEN Err(st, "ZkVerifierNotConfigured")
  ELSE IF st.zk_vk_id = <<>> THEN Err(st, "ZkVerifierNotConfigured")
  ELSE IF vk_id # st.zk_vk_id[1] THEN Err(st, "ZkProofInvalid")
  ELSE IF proof_len # 256 \/ Len(public_inputs) < 1 THEN Err(st, "ZkProofInvalid")
  ELSE IF ~verified THEN Err(st, "ZkProofInvalid")
  ELSE settle_pool(st, signer, pool_id, winner)

\* claim_payout_internal without the comparison of the bet's side with the
\* winner's: a revealed bet on the losing side is paid as well.
claim_payout_internal_pays_loser(st, pool_id, bettor) ==
  IF pool_id \notin DOMAIN st.pools THEN Err(st, "PoolNotFound")
  ELSE IF st.pools[pool_id].status # "Settled" THEN Err(st, "PoolNotSettled")
  ELSE IF <<pool_id, bettor>> \notin DOMAIN st.bets THEN Err(st, "BetNotFound")
  ELSE
    LET bet_key == <<pool_id, bettor>>
        bet == st.bets[bet_key]
        marked == [st EXCEPT !.bets[bet_key].claimed = TRUE]
        payout == bet.amount * 2
        t == transfer(st.balance, Contract, bettor, payout)
    IN
      IF bet.claimed THEN Err(st, "AlreadyClaimed")
      ELSE IF ~bet.revealed THEN Err(marked, "NoPayout")
      ELSE IF ~t.ok THEN Trap(st)
      ELSE Ok([marked EXCEPT !.balance = t.balance], payout)

\* claim_payout_internal that pays a winner the stake once.
claim_payout_internal_pays_stake(st, pool_id, bettor) ==
  IF pool_id \notin DOMAIN st.pools THEN Err(st, "PoolNotFound")
  ELSE IF st.pools[pool_id].status # "Settled" THEN Err(st, "PoolNotSettled")
  ELSE IF <<pool_id, bettor>> \notin DOMAIN st.bets THEN Err(st, "BetNotFound")
  ELSE
    LET pool == st.pools[pool_id]
        bet_key == <<pool_id, bettor>>
        bet == st.bets[bet_key]
        marked == [st EXCEPT !.bets[bet_key].claimed = TRUE]
        payout == bet.amount
        t == transfer(st.balance, Contract, bettor, payout)
    IN
      IF bet.claimed THEN Err(st, "AlreadyClaimed")
      ELSE IF pool.winner_side = SIDE_NONE THEN Err(st, "InvalidWinner")
      ELSE IF ~bet.revealed THEN Err(marked, "NoPayout")
      ELSE IF bet.side # pool.winner_side THEN Err(marked, "NoPayout")
      ELSE IF payout <= 0 THEN Err(st, "NoPayout")
      ELSE IF ~t.ok THEN Trap(st)
      ELSE Ok([marked EXCEPT !.balance = t.balance], payout)

claim_payout_internal(st, pool_id, bettor) ==
  IF pool_id \notin DOMAIN st.pools THEN Err(st, "PoolNotFound")
  ELSE IF st.pools[pool_id].status # "Settled" THEN Err(st, "PoolNotSettled")
  ELSE IF <<pool_id, bettor>> \notin DOMAIN st.bets THEN Err(st, "BetNotFound")
  ELSE
    LET pool == st.pools[pool_id]
        bet_key == <<pool_id, bettor>>
        bet == st.bets[bet_key]
        marked == [st EXCEPT !.bets[bet_key].claimed = TRUE]
        payout == bet.amount * 2
        t == transfer(st.balance, Contract, bettor, payout)
    IN
      IF bet.claimed THEN Err(st, "AlreadyClaimed")
      ELSE IF pool.winner_side = SIDE_NONE THEN Err(st, "InvalidWinner")
      ELSE IF ~bet.revealed THEN Err(marked, "NoPayout")
      ELSE IF bet.side # pool.winner_side THEN Err(marked, "NoPayout")
      ELSE IF payout <= 0 THEN Err(st, "NoPayout")
      ELSE IF ~t.ok THEN Trap(st)
      ELSE Ok([marked EXCEPT !.balance = t.balance], payout)

claim_payout(st, signer, pool_id, bettor) ==
  IF ~require_auth(signer, bettor) THEN Trap(st)
  ELSE claim_payout_internal(st, pool_id, bettor)

admin_claim_payout(st, signer, pool_id, bettor) ==
  IF ~require_admin(signer) THEN Trap(st)
  ELSE claim_payout_internal(st, pool_id, bettor)

\* The loop of refund_pool giving back the amount without the fee.
RECURSIVE refund_loop_amount_only(_, _, _, _)
refund_loop_amount_only(st, pool_id, bettors, i) ==
  IF i > Len(bettors) THEN [ok |-> TRUE, st |-> st]
  ELSE
    LET bettor_addr == bettors[i]
        bet_key == <<pool_id, bettor_addr>>
    IN
      IF bet_key \in DOMAIN st.bets /\ ~st.bets[bet_key].claimed
        THEN
          LET bet == st.bets[bet_key]
              refund == bet.amount
              t == transfer(st.balance, Contract, bettor_addr, refund)
          IN IF ~t.ok THEN [ok |-> FALSE, st |-> st]
             ELSE refund_loop_amount_only(
                    [st EXCEPT !.balance = t.balance,
                               !.bets[bet_key].claimed = TRUE],
                    pool_id, bettors, i + 1)
        ELSE refund_loop_amount_only(st, pool_id, bettors, i + 1)

\* The loop of refund_pool from the i-th bettor of the list on: [ok, st], ok
\* false as soon as a transfer fails.
RECURSIVE refund_loop(_, _, _, _)
refund_loop(st, pool_id, bettors, i) ==
  IF i > Len(bettors) THEN [ok |-> TRUE, st |-> st]
  ELSE
    LET bettor_addr == bettors[i]
        bet_key == <<pool_id, bettor_addr>>
    IN
      IF bet_key \in DOMAIN st.bets /\ ~st.bets[bet_key].claimed
        THEN
          LET bet == st.bets[bet_key]
              refund == bet.amount + bet.fee_paid
              t == transfer(st.balance, Contract, bettor_addr, refund)
          IN IF ~t.ok THEN [ok |-> FALSE, st |-> st]
             ELSE refund_loop([st EXCEPT !.balance = t.balance,
                                         !.bets[bet_key].claimed = TRUE],
                              pool_id, bettors, i + 1)
        ELSE refund_loop(st, pool_id, bettors, i + 1)

refund_pool(st, signer, pool_id) ==
  IF ~require_admin(signer) THEN Trap(st)
  ELSE IF pool_id \notin DOMAIN st.pools THEN Err(st, "PoolNotFound")
  ELSE IF st.pools[pool_id].status \in {"Settled", "Refunded"}
    THEN Err(st, "PoolAlreadySettled")
  ELSE
    LET bettors == IF pool_id \in DOMAIN st.pool_bettors
                     THEN st.pool_bettors[pool_id] ELSE <<>>
        l == refund_loop(st, pool_id, bettors, 1)
    IN IF ~l.ok THEN Trap(l.st)
       ELSE Ok([l.st EXCEPT !.pools[pool_id].status = "Refunded"], 0)

\* now_ts.saturating_sub(last_sweep)
saturating_sub(a, b) == IF a < b THEN 0 ELSE a - b

\* sweep_treasury of the betting contract without the wait since the last
\* sweep.
sweep_treasury_no_wait(st, ts, signer) ==
  IF ~require_admin(signer) THEN Trap(st)
  ELSE IF st.fee_accrued <= 0 THEN Err(st, "NothingToSweep")
  ELSE
    LET t == transfer(st.balance, Contract, Treasury, st.fee_accrued)
    IN IF ~t.ok THEN Trap(st)
       ELSE Ok([st EXCEPT !.balance = t.balance,
                          !.fee_accrued = 0,
                          !.last_sweep_ts = ts],
               st.fee_accrued)

sweep_treasury(st, ts, signer) ==
  IF ~require_admin(signer) THEN Trap(st)
  ELSE IF st.last_sweep_ts > 0
          /\ saturating_sub(ts, st.last_sweep_ts) < SWEEP_INTERVAL_SECONDS
    THEN Err(st, "SweepTooEarly")
  ELSE IF st.fee_accrued <= 0 THEN Err(st, "NothingToSweep")
  ELSE
    LET t == transfer(st.balance, Contract, Treasury, st.fee_accrued)
    IN IF ~t.ok THEN Trap(st)
       ELSE Ok([st EXCEPT !.balance = t.balance,
                          !.fee_accrued = 0,
                          !.last_sweep_ts = ts],
               st.fee_accrued)

set_zk_verifier(st, signer, verifier, vk_id) ==
  IF ~require_admin(signer) THEN Trap(st)
  ELSE Ok([st EXCEPT !.zk_verifier = verifier, !.zk_vk_id = <<vk_id>>], 0)

(* ------------------------------------------------------------------------ *)
(* Specification                                                             *)
(* ------------------------------------------------------------------------ *)
(* ------------------------------------------------------------------------ *)
(* contracts/veilstar-brawl: matches and the round gate                      *)
(* ------------------------------------------------------------------------ *)
\* The persisted state the game contract reads and writes.
BrawlStore ==
  [matches |-> matches, match_salt |-> match_salt, zk_commit |-> zk_commit,
   zk_verified |-> zk_verified, zk_match_outcome |-> zk_match_outcome,
   zk_gate_required |-> zk_gate_required,
   zk_verifier_contract |-> zk_verifier_contract,
   zk_verifier_vk_id |-> zk_verifier_vk_id,
   fee_accrued |-> brawl_fee_accrued, last_sweep_ts |-> brawl_last_sweep_ts,
   balance |-> brawl_balance]

\* calc_fee of the game contract: fee_bps of the stake, rounded up.
stake_fee(stake_amount_stroops, fee_bps) ==
  ((stake_amount_stroops * fee_bps) + 9999) \div 10000

new_match(player1, player2, player1_points, player2_points) ==
  [player1 |-> player1, player2 |-> player2,
   player1_points |-> player1_points, player2_points |-> player2_points,
   player1_moves |-> 0, player2_moves |-> 0, total_xlm_collected |-> 0,
   stake_amount_stroops |-> 0, stake_fee_bps |-> STAKE_FEE_BPS,
   stake_deadline_ts |-> 0, player1_stake_paid |-> FALSE,
   player2_stake_paid |-> FALSE, fee_accrued_stroops |-> 0,
   player1_zk_commits |-> 0, player2_zk_commits |-> 0,
   player1_zk_verified |-> 0, player2_zk_verified |-> 0,
   is_cancelled |-> FALSE, winner |-> NoneVal]

\* sha256 of session_id || ledger sequence (both big-endian u32).
salt_of(session_id, seq) == sha256(<<session_id, seq>>)

\* `signers` are the addresses that authorised the call, `hub_ok` whether the
\* Game Hub's start_game returned.  An existing match of the session is
\* overwritten.
start_game(st, seq, signers, hub_ok, session_id, player1, player2, player1_points, player2_points) ==
  IF player1 = player2 THEN Trap(st)
  ELSE IF player1 \notin signers \/ player2 \notin signers THEN Trap(st)
  ELSE IF ~hub_ok THEN Trap(st)
  ELSE
    Ok([st EXCEPT
          !.matches = (session_id :> new_match(player1, player2,
                                               player1_points, player2_points))
                      @@ @,
          !.match_salt = (session_id :> salt_of(session_id, seq)) @@ @],
       0)

\* The key of a round-gate slot.
slot_key(session_id, salt, round, turn, is_p1) ==
  <<session_id, salt, round, turn, is_p1>>

submit_zk_commit(st, signer, session_id, player, round, turn, commitment) ==
  IF ~require_auth(signer, player) THEN Trap(st)
  ELSE IF round = 0 \/ turn = 0 THEN Err(st, "InvalidZkCommitment")
  ELSE IF session_id \notin DOMAIN st.matches THEN Err(st, "MatchNotFound")
  ELSE
    LET m == st.matches[session_id]
        is_p1 == player = m.player1
        is_p2 == player = m.player2
    IN
      IF m.winner # NoneVal THEN Err(st, "MatchAlreadyEnded")
      ELSE IF m.is_cancelled THEN Err(st, "MatchCancelled")
      ELSE IF ~is_p1 /\ ~is_p2 THEN Err(st, "NotPlayer")
      ELSE IF session_id \notin DOMAIN st.match_salt THEN Err(st, "MatchNotFound")
      ELSE
        LET zk_key == slot_key(session_id, st.match_salt[session_id], round,
                               turn, is_p1)
            had_existing_commit == zk_key \in DOMAIN st.zk_commit
            counted ==
              IF had_existing_commit THEN m
              ELSE IF is_p1 THEN [m EXCEPT !.player1_zk_commits = @ + 1]
              ELSE [m EXCEPT !.player2_zk_commits = @ + 1]
        IN Ok([st EXCEPT !.zk_commit = (zk_key :> commitment) @@ @,
                         !.matches[session_id] = counted],
              0)

\* submit_zk_verification without the comparison with the stored commitment.
submit_zk_verification_any_commitment(st, session_id, player, round, turn, commitment, vk_id, proof_len, public_inputs, verified) ==
  IF round = 0 \/ turn = 0 THEN Err(st, "InvalidZkCommitment")
  ELSE IF proof_len = 0 THEN Err(st, "ZkProofInvalid")
  ELSE IF session_id \notin DOMAIN st.matches THEN Err(st, "MatchNotFound")
  ELSE
    LET m == st.matches[session_id]
        is_p1 == player = m.player1
        is_p2 == player = m.player2
    IN
      IF m.winner # NoneVal THEN Err(st, "MatchAlreadyEnded")
      ELSE IF m.is_cancelled THEN Err(st, "MatchCancelled")
      ELSE IF ~is_p1 /\ ~is_p2 THEN Err(st, "NotPlayer")
      ELSE IF session_id \notin DOMAIN st.match_salt THEN Err(st, "MatchNotFound")
      ELSE
        LET commit_key == slot_key(session_id, st.match_salt[session_id],
                                   round, turn, is_p1)
            verify_key == commit_key
            had_existing_verification == verify_key \in DOMAIN st.zk_verified
            configured_vk_id == st.zk_verifier_vk_id
            record == [verifier_contract |-> st.zk_verifier_contract,
                       commitment |-> commitment, vk_id |-> vk_id]
            counted ==
              IF had_existing_verification THEN m
              ELSE IF is_p1 THEN [m EXCEPT !.player1_zk_verified = @ + 1]
              ELSE [m EXCEPT !.player2_zk_verified = @ + 1]
        IN
          IF commit_key \notin DOMAIN st.zk_commit THEN Err(st, "ZkCommitNotFound")
          ELSE IF configured_vk_id # ZeroVkId /\ vk_id # configured_vk_id
            THEN Err(st, "ZkProofInvalid")
          ELSE IF proof_len # 256 \/ Len(public_inputs) = 0
            THEN Err(st, "ZkProofInvalid")
          ELSE IF st.zk_verifier_contract = NoneVal
            THEN Err(st, "ZkVerifierNotConfigured")
          ELSE IF ~verified THEN Err(st, "ZkProofInvalid")
          ELSE Ok([st EXCEPT !.zk_verified = (verify_key :> record) @@ @,
                             !.matches[session_id] = counted],
                  0)

\* `verified` is what the verifier contract returns from verify_round_proof.
submit_zk_verification(st, session_id, player, round, turn, commitment, vk_id, proof_len, public_inputs, verified) ==
  IF round = 0 \/ turn = 0 THEN Err(st, "InvalidZkCommitment")
  ELSE IF proof_len = 0 THEN Err(st, "ZkProofInvalid")
  ELSE IF session_id \notin DOMAIN st.matches THEN Err(st, "MatchNotFound")
  ELSE
    LET m == st.matches[session_id]
        is_p1 == player = m.player1
        is_p2 == player = m.player2
    IN
      IF m.winner # NoneVal THEN Err(st, "MatchAlreadyEnded")
      ELSE IF m.is_cancelled THEN Err(st, "MatchCancelled")
      ELSE IF ~is_p1 /\ ~is_p2 THEN Err(st, "NotPlayer")
      ELSE IF session_id \notin DOMAIN st.match_salt THEN Err(st, "MatchNotFound")
      ELSE
        LET commit_key == slot_key(session_id, st.match_salt[session_id],
                                   round, turn, is_p1)
            verify_key == commit_key
            had_existing_verification == verify_key \in DOMAIN st.zk_verified
            configured_vk_id == st.zk_verifier_vk_id
            record == [verifier_contract |-> st.zk_verifier_contract,
                       commitment |-> commitment, vk_id |-> vk_id]
            counted ==
              IF had_existing_verification THEN m
              ELSE IF is_p1 THEN [m EXCEPT !.player1_zk_verified = @ + 1]
              ELSE [m EXCEPT !.player2_zk_verified = @ + 1]
        IN
          IF commit_key \notin DOMAIN st.zk_commit THEN Err(st, "ZkCommitNotFound")
          ELSE IF st.zk_commit[commit_key] # commitment
            THEN Err(st, "InvalidZkCommitment")
          ELSE IF configured_vk_id # ZeroVkId /\ vk_id # configured_vk_id
            THEN Err(st, "ZkProofInvalid")
          ELSE IF proof_len # 256 \/ Len(public_inputs) = 0
            THEN Err(st, "ZkProofInvalid")
          ELSE IF st.zk_verifier_contract = NoneVal
            THEN Err(st, "ZkVerifierNotConfigured")
          ELSE IF ~verified THEN Err(st, "ZkProofInvalid")
          ELSE Ok([st EXCEPT !.zk_verified = (verify_key :> record) @@ @,
                             !.matches[session_id] = counted],
                  0)

\* submit_zk_match_outcome without the check for an existing outcome record.
submit_zk_match_outcome_overwrites(st, session_id, winner, vk_id, proof_len, public_inputs, verified) ==
  IF proof_len # 256 \/ Len(public_inputs) = 0 THEN Err(st, "ZkProofInvalid")
  ELSE IF session_id \notin DOMAIN st.matches THEN Err(st, "MatchNotFound")
  ELSE
    LET m == st.matches[session_id]
        configured_vk_id == st.zk_verifier_vk_id
        record == [verifier_contract |-> st.zk_verifier_contract,
                   winner |-> winner, vk_id |-> vk_id]
    IN
      IF m.winner # NoneVal THEN Err(st, "MatchAlreadyEnded")
      ELSE IF m.is_cancelled THEN Err(st, "MatchCancelled")
      ELSE IF configured_vk_id = ZeroVkId \/ vk_id # configured_vk_id
        THEN Err(st, "ZkProofInvalid")
      ELSE IF winner # m.player1 /\ winner # m.player2
        THEN Err(st, "InvalidWinnerClaim")
      ELSE IF st.zk_verifier_contract = NoneVal
        THEN Err(st, "ZkVerifierNotConfigured")
      ELSE IF ~verified THEN Err(st, "ZkProofInvalid")
      ELSE Ok([st EXCEPT !.zk_match_outcome = (session_id :> record) @@ @], 0)

submit_zk_match_outcome(st, session_id, winner, vk_id, proof_len, public_inputs, verified) ==
  IF proof_len # 256 \/ Len(public_inputs) = 0 THEN Err(st, "ZkProofInvalid")
  ELSE IF session_id \notin DOMAIN st.matches THEN Err(st, "MatchNotFound")
  ELSE
    LET m == st.matches[session_id]
        configured_vk_id == st.zk_verifier_vk_id
        record == [verifier_contract |-> st.zk_verifier_contract,
                   winner |-> winner, vk_id |-> vk_id]
    IN
      IF m.winner # NoneVal THEN Err(st, "MatchAlreadyEnded")
      ELSE IF m.is_cancelled THEN Err(st, "MatchCancelled")
      ELSE IF configured_vk_id = ZeroVkId \/ vk_id # configured_vk_id
        THEN Err(st, "ZkProofInvalid")
      ELSE IF winner # m.player1 /\ winner # m.player2
        THEN Err(st, "InvalidWinnerClaim")
      ELSE IF st.zk_verifier_contract = NoneVal
        THEN Err(st, "ZkVerifierNotConfigured")
      ELSE IF ~verified THEN Err(st, "ZkProofInvalid")
      ELSE IF session_id \in DOMAIN st.zk_match_outcome
        THEN Err(st, "ZkVerificationAlreadySubmitted")
      ELSE Ok([st EXCEPT !.zk_match_outcome = (session_id :> record) @@ @], 0)

\* end_game that takes the winner from the caller's flag under the gate too.
end_game_trusts_caller(st, signer, hub_ok, session_id, player1_won) ==
  IF ~require_admin(signer) THEN Trap(st)
  ELSE IF session_id \notin DOMAIN st.matches THEN Err(st, "MatchNotFound")
  ELSE
    LET m == st.matches[session_id]
        gated == st.zk_gate_required
        has_outcome == session_id \in DOMAIN st.zk_match_outcome
        winner == IF player1_won THEN m.player1 ELSE m.player2
        written == [st EXCEPT !.matches[session_id].winner = winner]
    IN
      IF m.winner # NoneVal THEN Err(st, "MatchAlreadyEnded")
      ELSE IF m.is_cancelled THEN Err(st, "MatchCancelled")
      ELSE IF gated /\ (m.player1_zk_verified = 0 \/ m.player2_zk_verified = 0)
        THEN Err(st, "ZkCommitRequired")
      ELSE IF gated /\ ~has_outcome THEN Err(st, "ZkMatchOutcomeRequired")
      ELSE IF m.stake_amount_stroops > 0 THEN Err(st, "StakeNotPaid")
      ELSE IF ~hub_ok THEN Trap(written)
      ELSE Ok(written, 0)


\* end_game that returns Ok when the hub's end_game call has failed.
end_game_ignores_hub(st, signer, hub_ok, session_id, player1_won) ==
  IF ~require_admin(signer) THEN Trap(st)
  ELSE IF session_id \notin DOMAIN st.matches THEN Err(st, "MatchNotFound")
  ELSE
    LET m == st.matches[session_id]
        gated == st.zk_gate_required
        has_outcome == session_id \in DOMAIN st.zk_match_outcome
        winner == IF gated THEN st.zk_match_outcome[session_id].winner
                  ELSE IF player1_won THEN m.player1 ELSE m.player2
        winner_payout == m.stake_amount_stroops * 2
        t == transfer(st.balance, Brawl, winner, winner_payout)
        total_fee == stake_fee(m.stake_amount_stroops, m.stake_fee_bps) * 2
        paid == IF m.stake_amount_stroops > 0
                  THEN [st EXCEPT !.balance = t.balance,
                                  !.fee_accrued = @ + total_fee,
                                  !.matches[session_id].fee_accrued_stroops =
                                     @ + total_fee]
                  ELSE st
        written == [paid EXCEPT !.matches[session_id].winner = winner]
    IN
      IF m.winner # NoneVal THEN Err(st, "MatchAlreadyEnded")
      ELSE IF m.is_cancelled THEN Err(st, "MatchCancelled")
      ELSE IF gated /\ (m.player1_zk_verified = 0 \/ m.player2_zk_verified = 0)
        THEN Err(st, "ZkCommitRequired")
      ELSE IF gated /\ ~has_outcome THEN Err(st, "ZkMatchOutcomeRequired")
      ELSE IF gated /\ ((winner = m.player1) # player1_won)
        THEN Err(st, "InvalidWinnerClaim")
      ELSE IF m.stake_amount_stroops > 0
              /\ (~m.player1_stake_paid \/ ~m.player2_stake_paid)
        THEN Err(st, "StakeNotPaid")
      ELSE IF m.stake_amount_stroops > 0 /\ ~t.ok THEN Trap(st)
      ELSE Ok(written, 0)

\* `hub_ok`: whether the Game Hub's end_game returned.  The match with its
\* winner is stored before the hub is called.
end_game(st, signer, hub_ok, session_id, player1_won) ==
  IF ~require_admin(signer) THEN Trap(st)
  ELSE IF session_id \notin DOMAIN st.matches THEN Err(st, "MatchNotFound")
  ELSE
    LET m == st.matches[session_id]
        gated == st.zk_gate_required
        has_outcome == session_id \in DOMAIN st.zk_match_outcome
        winner == IF gated THEN st.zk_match_outcome[session_id].winner
                  ELSE IF player1_won THEN m.player1 ELSE m.player2
        winner_payout == m.stake_amount_stroops * 2
        t == transfer(st.balance, Brawl, winner, winner_payout)
        total_fee == stake_fee(m.stake_amount_stroops, m.stake_fee_bps) * 2
        paid == IF m.stake_amount_stroops > 0
                  THEN [st EXCEPT !.balance = t.balance,
                                  !.fee_accrued = @ + total_fee,
                                  !.matches[session_id].fee_accrued_stroops =
                                     @ + total_fee]
                  ELSE st
        written == [paid EXCEPT !.matches[session_id].winner = winner]
    IN
      IF m.winner # NoneVal THEN Err(st, "MatchAlreadyEnded")
      ELSE IF m.is_cancelled THEN Err(st, "MatchCancelled")
      ELSE IF gated /\ (m.player1_zk_verified = 0 \/ m.player2_zk_verified = 0)
        THEN Err(st, "ZkCommitRequired")
      ELSE IF gated /\ ~has_outcome THEN Err(st, "ZkMatchOutcomeRequired")
      ELSE IF gated /\ ((winner = m.player1) # player1_won)
        THEN Err(st, "InvalidWinnerClaim")
      ELSE IF m.stake_amount_stroops > 0
              /\ (~m.player1_stake_paid \/ ~m.player2_stake_paid)
        THEN Err(st, "StakeNotPaid")
      ELSE IF m.stake_amount_stroops > 0 /\ ~t.ok THEN Trap(st)
      ELSE IF ~hub_ok THEN Trap(written)
      ELSE Ok(written, 0)

\* cancel_match refunds player1 first, then player2.
cancel_match(st, signer, hub_ok, session_id) ==
  IF ~require_admin(signer) THEN Trap(st)
  ELSE IF session_id \notin DOMAIN st.matches THEN Err(st, "MatchNotFound")
  ELSE
    LET m == st.matches[session_id]
        refund_amount == m.stake_amount_stroops
                           + stake_fee(m.stake_amount_stroops, m.stake_fee_bps)
        pay1 == m.stake_amount_stroops > 0 /\ m.player1_stake_paid
        pay2 == m.stake_amount_stroops > 0 /\ m.player2_stake_paid
        t1 == IF pay1 THEN transfer(st.balance, Brawl, m.player1, refund_amount)
              ELSE [ok |-> TRUE, balance |-> st.balance]
        t2 == IF pay2 THEN transfer(t1.balance, Brawl, m.player2, refund_amount)
              ELSE [ok |-> TRUE, balance |-> t1.balance]
        written == [st EXCEPT !.balance = t2.balance,
                              !.matches[session_id] =
                                 [m EXCEPT !.player1_stake_paid = FALSE,
                                           !.player2_stake_paid = FALSE,
                                           !.is_cancelled = TRUE]]
    IN
      IF m.winner # NoneVal THEN Err(st, "MatchAlreadyEnded")
      ELSE IF m.is_cancelled THEN Err(st, "MatchCancelled")
      ELSE IF ~t1.ok \/ ~t2.ok THEN Trap(st)
      ELSE IF ~hub_ok THEN Trap(written)
      ELSE Ok(written, 0)

\* submit_move collects MOVE_COST_STROOPS from the player and counts the move.
submit_move(st, signer, session_id, player) ==
  IF ~require_auth(signer, player) THEN Trap(st)
  ELSE IF session_id \notin DOMAIN st.matches THEN Err(st, "MatchNotFound")
  ELSE
    LET m == st.matches[session_id]
        is_p1 == player = m.player1
        is_p2 == player = m.player2
        t == transfer(st.balance, player, Brawl, MOVE_COST_STROOPS)
        counted == IF is_p1 THEN [m EXCEPT !.player1_moves = @ + 1]
                   ELSE [m EXCEPT !.player2_moves = @ + 1]
    IN
      IF m.winner # NoneVal THEN Err(st, "MatchAlreadyEnded")
      ELSE IF m.is_cancelled THEN Err(st, "MatchCancelled")
      ELSE IF ~is_p1 /\ ~is_p2 THEN Err(st, "NotPlayer")
      ELSE IF ~t.ok THEN Trap(st)
      ELSE Ok([st EXCEPT
                 !.balance = t.balance,
                 !.matches[session_id] =
                    [counted EXCEPT !.total_xlm_collected =
                                       @ + MOVE_COST_STROOPS]],
              0)

submit_power_surge(st, signer, session_id, player) ==
  IF ~require_auth(signer, player) THEN Trap(st)
  ELSE IF session_id \notin DOMAIN st.matches THEN Err(st, "MatchNotFound")
  ELSE
    LET m == st.matches[session_id]
        is_p1 == player = m.player1
        is_p2 == player = m.player2
        t == transfer(st.balance, player, Brawl, MOVE_COST_STROOPS)
    IN
      IF m.winner # NoneVal THEN Err(st, "MatchAlreadyEnded")
      ELSE IF m.is_cancelled THEN Err(st, "MatchCancelled")
      ELSE IF ~is_p1 /\ ~is_p2 THEN Err(st, "NotPlayer")
      ELSE IF ~t.ok THEN Trap(st)
      ELSE Ok([st EXCEPT
                 !.balance = t.balance,
                 !.matches[session_id].total_xlm_collected =
                    @ + MOVE_COST_STROOPS],
              0)


\* set_match_stake that replaces a stake that is already set.
set_match_stake_overwrites(st, ts, signer, session_id, stake_amount_stroops) ==
  IF ~require_admin(signer) THEN Trap(st)
  ELSE IF session_id \notin DOMAIN st.matches THEN Err(st, "MatchNotFound")
  ELSE
    LET m == st.matches[session_id]
    IN
      IF stake_amount_stroops <= 0 THEN Err(st, "InvalidStake")
      ELSE Ok([st EXCEPT
                 !.matches[session_id] =
                    [m EXCEPT !.stake_amount_stroops = stake_amount_stroops,
                              !.stake_fee_bps = STAKE_FEE_BPS,
                              !.stake_deadline_ts =
                                 ts + STAKE_DEPOSIT_WINDOW_SECONDS]],
              0)

set_match_stake(st, ts, signer, session_id, stake_amount_stroops) ==
  IF ~require_admin(signer) THEN Trap(st)
  ELSE IF session_id \notin DOMAIN st.matches THEN Err(st, "MatchNotFound")
  ELSE
    LET m == st.matches[session_id]
    IN
      IF stake_amount_stroops <= 0 THEN Err(st, "InvalidStake")
      ELSE IF m.stake_amount_stroops > 0
        THEN IF m.stake_amount_stroops # stake_amount_stroops
               THEN Err(st, "InvalidStake")
               ELSE Ok(st, 0)
      ELSE Ok([st EXCEPT
                 !.matches[session_id] =
                    [m EXCEPT !.stake_amount_stroops = stake_amount_stroops,
                              !.stake_fee_bps = STAKE_FEE_BPS,
                              !.stake_deadline_ts =
                                 ts + STAKE_DEPOSIT_WINDOW_SECONDS]],
              0)

\* deposit_stake that charges a player who has paid already.
deposit_stake_charges_again(st, ts, signer, session_id, player) ==
  IF ~require_auth(signer, player) THEN Trap(st)
  ELSE IF session_id \notin DOMAIN st.matches THEN Err(st, "MatchNotFound")
  ELSE
    LET m == st.matches[session_id]
        is_p1 == player = m.player1
        is_p2 == player = m.player2
        fee == stake_fee(m.stake_amount_stroops, m.stake_fee_bps)
        required == m.stake_amount_stroops + fee
        t == transfer(st.balance, player, Brawl, required)
    IN
      IF m.stake_amount_stroops <= 0 THEN Err(st, "StakeNotConfigured")
      ELSE IF m.is_cancelled THEN Err(st, "MatchCancelled")
      ELSE IF m.stake_deadline_ts > 0 /\ ts > m.stake_deadline_ts
        THEN Err(st, "StakeDepositExpired")
      ELSE IF ~is_p1 /\ ~is_p2 THEN Err(st, "NotPlayer")
      ELSE IF ~t.ok THEN Trap(st)
      ELSE Ok([st EXCEPT
                 !.balance = t.balance,
                 !.matches[session_id] =
                    IF is_p1 THEN [m EXCEPT !.player1_stake_paid = TRUE]
                    ELSE [m EXCEPT !.player2_stake_paid = TRUE]],
              0)

deposit_stake(st, ts, signer, session_id, player) ==
  IF ~require_auth(signer, player) THEN Trap(st)
  ELSE IF session_id \notin DOMAIN st.matches THEN Err(st, "MatchNotFound")
  ELSE
    LET m == st.matches[session_id]
        is_p1 == player = m.player1
        is_p2 == player = m.player2
        fee == stake_fee(m.stake_amount_stroops, m.stake_fee_bps)
        required == m.stake_amount_stroops + fee
        t == transfer(st.balance, player, Brawl, required)
    IN
      IF m.stake_amount_stroops <= 0 THEN Err(st, "StakeNotConfigured")
      ELSE IF m.is_cancelled THEN Err(st, "MatchCancelled")
      ELSE IF m.stake_deadline_ts > 0 /\ ts > m.stake_deadline_ts
        THEN Err(st, "StakeDepositExpired")
      ELSE IF ~is_p1 /\ ~is_p2 THEN Err(st, "NotPlayer")
      ELSE IF (is_p1 /\ m.player1_stake_paid) \/ (is_p2 /\ m.player2_stake_paid)
        THEN Ok(st, 0)
      ELSE IF ~t.ok THEN Trap(st)
      ELSE Ok([st EXCEPT
                 !.balance = t.balance,
                 !.matches[session_id] =
                    IF is_p1 THEN [m EXCEPT !.player1_stake_paid = TRUE]
                    ELSE [m EXCEPT !.player2_stake_paid = TRUE]],
              0)

\* expire_stake refunds the one player who deposited, if exactly one did.
expire_stake(st, ts, signer, hub_ok, session_id) ==
  IF ~require_admin(signer) THEN Trap(st)
  ELSE IF session_id \notin DOMAIN st.matches THEN Err(st, "MatchNotFound")
  ELSE
    LET m == st.matches[session_id]
        refund_fee == stake_fee(m.stake_amount_stroops, m.stake_fee_bps)
        refund_amount == m.stake_amount_stroops + refund_fee
        one_paid == m.player1_stake_paid # m.player2_stake_paid
        refund_to == IF m.player1_stake_paid THEN m.player1 ELSE m.player2
        t == IF one_paid
               THEN transfer(st.balance, Brawl, refund_to, refund_amount)
               ELSE [ok |-> TRUE, balance |-> st.balance]
        written == [st EXCEPT !.balance = t.balance,
                              !.matches[session_id] =
                                 [m EXCEPT !.player1_stake_paid = FALSE,
                                           !.player2_stake_paid = FALSE,
                                           !.is_cancelled = TRUE]]
    IN
      IF m.winner # NoneVal THEN Err(st, "MatchAlreadyEnded")
      ELSE IF m.is_cancelled THEN Err(st, "MatchCancelled")
      ELSE IF m.stake_amount_stroops <= 0 THEN Err(st, "StakeNotConfigured")
      ELSE IF m.stake_deadline_ts = 0 \/ ts < m.stake_deadline_ts
        THEN Err(st, "DeadlineNotReached")
      ELSE IF ~t.ok THEN Trap(st)
      ELSE IF ~hub_ok THEN Trap(written)
      ELSE Ok(written, 0)

\* sweep_treasury of the game contract, which keeps RESERVE_STROOPS.
brawl_sweep_treasury(st, ts, signer) ==
  IF ~require_admin(signer) THEN Trap(st)
  ELSE IF st.last_sweep_ts > 0
          /\ saturating_sub(ts, st.last_sweep_ts) < FEE_SWEEP_INTERVAL_SECONDS
    THEN Err(st, "SweepTooEarly")
  ELSE
    LET accrued_fee == st.fee_accrued
        bal == st.balance[Brawl]
        above_reserve == bal - RESERVE_STROOPS
        sweepable == IF bal > RESERVE_STROOPS
                       THEN IF above_reserve < accrued_fee THEN above_reserve
                            ELSE accrued_fee
                       ELSE 0
        t == transfer(st.balance, Brawl, Treasury, sweepable)
    IN
      IF accrued_fee <= 0 THEN Err(st, "NothingToSweep")
      ELSE IF sweepable <= 0 THEN Err(st, "NothingToSweep")
      ELSE IF ~t.ok THEN Trap(st)
      ELSE Ok([st EXCEPT !.balance = t.balance,
                         !.fee_accrued = accrued_fee - sweepable,
                         !.last_sweep_ts = ts],
              sweepable)

\* The admin setters panic without the admin's authorisation.
set_zk_gate_required(st, signer, required) ==
  IF ~require_admin(signer) THEN Trap(st)
  ELSE Ok([st EXCEPT !.zk_gate_required = required], 0)

set_zk_verifier_contract(st, signer, verifier_contract) ==
  IF ~require_admin(signer) THEN Trap(st)
  ELSE Ok([st EXCEPT !.zk_verifier_contract = verifier_contract], 0)

set_zk_verifier_vk_id(st, signer, vk_id) ==
  IF ~require_admin(signer) THEN Trap(st)
  ELSE Ok([st EXCEPT !.zk_verifier_vk_id = vk_id], 0)

(* ------------------------------------------------------------------------ *)
(* contracts/zk-groth16-verifier: the handlers                               *)
(* ------------------------------------------------------------------------ *)
VerifierStore == [verification_keys |-> verification_keys]

\* The host's BN254 functions.  They trap on a byte string that is no point.
valid_point(p) == p \in 0..(GroupOrder - 1)
fr_from_bytes(bytes) == bytes[2] % GroupOrder
g1_mul(p, s) == (p * s) % GroupOrder
g1_add(p, q) == (p + q) % GroupOrder
g1_neg(p) == (GroupOrder - p) % GroupOrder
RECURSIVE pairing_sum(_, _)
pairing_sum(g1_points, g2_points) ==
  IF g1_points = <<>> THEN 0
  ELSE (Head(g1_points) * Head(g2_points))
       + pairing_sum(Tail(g1_points), Tail(g2_points))
pairing_check(g1_points, g2_points) ==
  pairing_sum(g1_points, g2_points) % GroupOrder = 0

\* set_verification_key without the check that ic is not empty.
set_verification_key_any_ic(st, signer, vk_id, alpha_g1, beta_g2, gamma_g2, delta_g2, ic) ==
  IF ~require_admin(signer) THEN Trap(st)
  ELSE
    LET vk == [alpha_g1 |-> alpha_g1, beta_g2 |-> beta_g2,
               gamma_g2 |-> gamma_g2, delta_g2 |-> delta_g2, ic |-> ic]
    IN Ok([st EXCEPT !.verification_keys = (vk_id :> vk) @@ @], 0)

set_verification_key(st, signer, vk_id, alpha_g1, beta_g2, gamma_g2, delta_g2, ic) ==
  IF ~require_admin(signer) THEN Trap(st)
  ELSE IF Len(ic) = 0 THEN Err(st, "InvalidVk")
  ELSE
    LET vk == [alpha_g1 |-> alpha_g1, beta_g2 |-> beta_g2,
               gamma_g2 |-> gamma_g2, delta_g2 |-> delta_g2, ic |-> ic]
    IN Ok([st EXCEPT !.verification_keys = (vk_id :> vk) @@ @], 0)

\* proof_g1_slice, proof_g2_slice: whether the slice is Some, which it is
\* unless the proof ends before `end`.
proof_slice(proof, start, end) == ~(end <= start \/ end > proof.len)

\* vk_x: ic[0] plus the sum of input[idx] * ic[idx + 1].
RECURSIVE fold_inputs(_, _, _, _)
fold_inputs(vk_x, ic, public_inputs, idx) ==
  IF idx >= Len(public_inputs) THEN vk_x
  ELSE fold_inputs(g1_add(vk_x, g1_mul(ic[idx + 2],
                                       fr_from_bytes(public_inputs[idx + 1]))),
                   ic, public_inputs, idx + 1)

\* verify_round_proof without the comparison of ic with the public inputs.
verify_round_proof_any_ic(st, vk_id, proof, public_inputs) ==
  IF vk_id \notin DOMAIN st.verification_keys THEN Ok(st, FALSE)
  ELSE
    LET vk == st.verification_keys[vk_id]
        proof_a == proof.a
        proof_b == proof.b
        proof_c == proof.c
        sliced == /\ proof_slice(proof, 0, 64) /\ proof_slice(proof, 64, 192)
                  /\ proof_slice(proof, 192, 256)
    IN
      IF proof.len # PROOF_GROTH16_BYTES_LEN THEN Ok(st, FALSE)
      ELSE IF ~sliced THEN Ok(st, FALSE)
      ELSE IF Len(vk.ic) < Len(public_inputs) + 1 THEN Trap(st)
      ELSE IF \E p \in {proof_a, proof_b, proof_c, vk.alpha_g1, vk.beta_g2,
                        vk.gamma_g2, vk.delta_g2}
                       \cup {vk.ic[i] : i \in 1..(Len(public_inputs) + 1)} :
                ~valid_point(p)
        THEN Trap(st)
      ELSE
        LET vk_x == fold_inputs(vk.ic[1], vk.ic, public_inputs, 0)
            g1_points == <<g1_neg(proof_a), vk.alpha_g1, vk_x, proof_c>>
            g2_points == <<proof_b, vk.beta_g2, vk.gamma_g2, vk.delta_g2>>
        IN Ok(st, pairing_check(g1_points, g2_points))

verify_round_proof(st, vk_id, proof, public_inputs) ==
  IF vk_id \notin DOMAIN st.verification_keys THEN Ok(st, FALSE)
  ELSE
    LET vk == st.verification_keys[vk_id]
        expected_ic_len == Len(public_inputs) + 1
        proof_a == proof.a
        proof_b == proof.b
        proof_c == proof.c
        sliced == /\ proof_slice(proof, 0, 64) /\ proof_slice(proof, 64, 192)
                  /\ proof_slice(proof, 192, 256)
    IN
      IF proof.len # PROOF_GROTH16_BYTES_LEN THEN Ok(st, FALSE)
      ELSE IF Len(vk.ic) # expected_ic_len THEN Ok(st, FALSE)
      ELSE IF ~sliced THEN Ok(st, FALSE)
      ELSE IF \E p \in {proof_a, proof_b, proof_c, vk.alpha_g1, vk.beta_g2,
                        vk.gamma_g2, vk.delta_g2}
                       \cup {vk.ic[i] : i \in 1..Len(vk.ic)} :
                ~valid_point(p)
        THEN Trap(st)
      ELSE
        LET vk_x == fold_inputs(vk.ic[1], vk.ic, public_inputs, 0)
            g1_points == <<g1_neg(proof_a), vk.alpha_g1, vk_x, proof_c>>
            g2_points == <<proof_b, vk.beta_g2, vk.gamma_g2, vk.delta_g2>>
        IN Ok(st, pairing_check(g1_points, g2_points))

Init ==
  /\ pools = <<>>
  /\ bets = <<>>
  /\ pool_bettors = <<>>
  /\ fee_accrued = 0
  /\ last_sweep_ts = 0
  /\ pool_counter = 0
  /\ zk_verifier = NoneVal
  /\ zk_vk_id = <<>>
  /\ balance = [a \in Accounts |-> IF a \in Bettors THEN InitialBalance ELSE 0]
  /\ now = StartTs
  /\ ticks = 0
  /\ escrow_in = [p \in PoolIds |-> 0]
  /\ paid_out = [p \in PoolIds |-> 0]
  /\ refunded = [p \in PoolIds |-> 0]
  /\ swept = 0
  /\ claim_tried = {}
  /\ zk_settled = {}
  /\ matches = <<>>
  /\ match_salt = <<>>
  /\ zk_commit = <<>>
  /\ zk_verified = <<>>
  /\ zk_match_outcome = <<>>
  /\ zk_gate_required = FALSE
  /\ zk_verifier_contract = NoneVal
  /\ zk_verifier_vk_id = ZeroVkId
  /\ brawl_fee_accrued = 0
  /\ brawl_last_sweep_ts = 0
  /\ brawl_balance = [a \in BrawlAccounts |->
                        IF a \in Players THEN PlayerBalance ELSE 0]
  /\ ledger_sequence = StartSequence
  /\ ledgers = 0
  /\ verification_keys = <<>>
  /\ vk_used = {}
  /\ verdicts = {}
  /\ keys_set = 0

\* The store after the call, as the host leaves it.
Commit(st) ==
  /\ pools' = st.pools
  /\ bets' = st.bets
  /\ pool_bettors' = st.pool_bettors
  /\ fee_accrued' = st.fee_accrued
  /\ last_sweep_ts' = st.last_sweep_ts
  /\ pool_counter' = st.pool_counter
  /\ zk_verifier' = st.zk_verifier
  /\ zk_vk_id' = st.zk_vk_id
  /\ balance' = st.balance
  /\ UNCHANGED <<brawl_vars, verifier_vars>>

\* A call that does not return Ok leaves the store as it was (HostFrame): it is
\* a step that changes nothing, which the specifications allow in any state.
\* The actions are the calls that return Ok, and the claims that return
\* NoPayout, which the history records.
Returns(r) == r.res = "Ok"

\* Tokens the call moved out of the contract (negative: into it).
Outflow(st) == balance[Contract] - st.balance[Contract]

CreatePool(deadlines) ==
  \E signer \in AdminCallers, mid \in MatchIds, deadline_ts \in deadlines :
    LET r == create_pool(Store, signer, mid, deadline_ts)
    IN /\ pool_counter < MaxPools
       /\ Returns(r)
       /\ Commit(HostFrame(Store, r))
       /\ UNCHANGED <<now, ticks, escrow_in, paid_out, refunded, swept,
                      claim_tried, zk_settled>>

CommitBet(amounts, commitments) ==
  \E pool_id \in PoolIds, bettor \in Bettors, commitment \in commitments,
     amount \in amounts :
    \E signer \in BettorCallers(bettor) :
      LET r == commit_bet(Store, now, signer, pool_id, bettor, commitment, amount)
          st == HostFrame(Store, r)
      IN /\ Cardinality(DOMAIN bets) < MaxBets
         /\ Returns(r)
         /\ Commit(st)
         /\ escrow_in' = [escrow_in EXCEPT ![pool_id] = @ - Outflow(st)]
         /\ UNCHANGED <<now, ticks, paid_out, refunded, swept, claim_tried,
                        zk_settled>>

LockPool ==
  \E signer \in AdminCallers, pool_id \in PoolIds :
    LET r == lock_pool(Store, signer, pool_id)
    IN /\ Returns(r)
       /\ Commit(HostFrame(Store, r))
       /\ UNCHANGED <<now, ticks, escrow_in, paid_out, refunded, swept,
                      claim_tried, zk_settled>>

RevealBet ==
  \E pool_id \in PoolIds, bettor \in Bettors, side \in BetSide, salt \in Salts :
    \E signer \in BettorCallers(bettor) :
      LET r == reveal_bet(Store, signer, pool_id, bettor, side, salt)
      IN /\ Returns(r)
       /\ Commit(HostFrame(Store, r))
         /\ UNCHANGED <<now, ticks, escrow_in, paid_out, refunded, swept,
                        claim_tried, zk_settled>>

AdminRevealBet ==
  \E signer \in AdminCallers, pool_id \in PoolIds, bettor \in Bettors,
     side \in BetSide, salt \in Salts :
    LET r == admin_reveal_bet(Store, signer, pool_id, bettor, side, salt)
    IN /\ Returns(r)
       /\ Commit(HostFrame(Store, r))
       /\ UNCHANGED <<now, ticks, escrow_in, paid_out, refunded, swept,
                      claim_tried, zk_settled>>

SettlePool ==
  \E signer \in AdminCallers, pool_id \in PoolIds, winner \in BetSide :
    LET r == settle_pool(Store, signer, pool_id, winner)
    IN /\ Returns(r)
       /\ Commit(HostFrame(Store, r))
       /\ UNCHANGED <<now, ticks, escrow_in, paid_out, refunded, swept,
                      claim_tried, zk_settled>>

SettlePoolZk ==
  \E signer \in AdminCallers, pool_id \in PoolIds, winner \in BetSide,
     vk_id \in VkIds, proof_len \in ProofLens, public_inputs \in PublicInputs,
     verified \in BOOLEAN :
    LET r == settle_pool_zk(Store, signer, pool_id, winner, vk_id, proof_len,
                            public_inputs, verified)
    IN /\ Returns(r)
       /\ Commit(HostFrame(Store, r))
       /\ zk_settled' =
            IF r.res = "Ok"
              THEN zk_settled \cup {[pool_id |-> pool_id, winner |-> winner,
                                     public_inputs |-> public_inputs]}
              ELSE zk_settled
       /\ UNCHANGED <<now, ticks, escrow_in, paid_out, refunded, swept,
                      claim_tried>>

\* What a claim call leaves in the history.
Claimed(r, st, pool_id, bettor) ==
  /\ paid_out' = [paid_out EXCEPT ![pool_id] = @ + Outflow(st)]
  /\ claim_tried' = IF r.res \in {"Ok", "NoPayout"}
                      THEN claim_tried \cup {<<pool_id, bettor>>}
                      ELSE claim_tried
  /\ UNCHANGED <<now, ticks, escrow_in, refunded, swept, zk_settled>>

ClaimPayout ==
  \E pool_id \in PoolIds, bettor \in Bettors :
    \E signer \in BettorCallers(bettor) :
      LET r == claim_payout(Store, signer, pool_id, bettor)
          st == HostFrame(Store, r)
      IN /\ Returns(r) \/ r.res = "NoPayout"
         /\ Commit(st)
         /\ Claimed(r, st, pool_id, bettor)

AdminClaimPayout ==
  \E signer \in AdminCallers, pool_id \in PoolIds, bettor \in Bettors :
    LET r == admin_claim_payout(Store, signer, pool_id, bettor)
        st == HostFrame(Store, r)
    IN /\ Returns(r) \/ r.res = "NoPayout"
       /\ Commit(st)
       /\ Claimed(r, st, pool_id, bettor)

RefundPool ==
  \E signer \in AdminCallers, pool_id \in PoolIds :
    LET r == refund_pool(Store, signer, pool_id)
        st == HostFrame(Store, r)
    IN /\ Returns(r)
       /\ Commit(st)
       /\ refunded' = [refunded EXCEPT ![pool_id] = @ + Outflow(st)]
       /\ UNCHANGED <<now, ticks, escrow_in, paid_out, swept, claim_tried,
                      zk_settled>>

SweepTreasury ==
  \E signer \in AdminCallers :
    LET r == sweep_treasury(Store, now, signer)
        st == HostFrame(Store, r)
    IN /\ Returns(r)
       /\ Commit(st)
       /\ swept' = swept + Outflow(st)
       /\ UNCHANGED <<now, ticks, escrow_in, paid_out, refunded, claim_tried,
                      zk_settled>>

SetZkVerifier ==
  \E signer \in AdminCallers, vk_id \in VkIds :
    LET r == set_zk_verifier(Store, signer, VerifierAddr, vk_id)
    IN /\ Returns(r)
       /\ Commit(HostFrame(Store, r))
       /\ UNCHANGED <<now, ticks, escrow_in, paid_out, refunded, swept,
                      claim_tried, zk_settled>>

\* The ledger closes and the timestamp moves on.
Tick ==
  /\ ticks < MaxTicks
  /\ now' = now + TickSeconds
  /\ ticks' = ticks + 1
  /\ UNCHANGED <<pools, bets, pool_bettors, fee_accrued, last_sweep_ts,
                 pool_counter, zk_verifier, zk_vk_id, balance, escrow_in,
                 paid_out, refunded, swept, claim_tried, zk_settled>>
  /\ UNCHANGED <<brawl_vars, verifier_vars>>

\* The betting flow of a pool: create, commit, lock, reveal, settle by the
\* admin or refund, claim.  Pools without a deadline.
Next ==
  \/ CreatePool({0})
  \/ CommitBet(Amounts, Commitments)
  \/ LockPool
  \/ RevealBet
  \/ AdminRevealBet
  \/ SettlePool
  \/ ClaimPayout
  \/ AdminClaimPayout
  \/ RefundPool

Spec == Init /\ [][Next]_vars

\* Deadlines, the ledger clock and the treasury: pools with and without a
\* deadline, bets, settlement or refund, and the sweep of the accrued fees.
NextFees ==
  \/ CreatePool(Deadlines)
  \/ CommitBet({MIN_BET_STROOPS}, {make_commitment("Player1", 1)})
  \/ LockPool
  \/ SettlePool
  \/ RefundPool
  \/ SweepTreasury
  \/ Tick

SpecFees == Init /\ [][NextFees]_vars

\* Settlement by proof: the verifier is configured and pools are settled
\* through settle_pool_zk, or refunded.
NextZk ==
  \/ CreatePool({0})
  \/ CommitBet({MIN_BET_STROOPS}, {make_commitment("Player1", 1)})
  \/ LockPool
  \/ SetZkVerifier
  \/ SettlePoolZk
  \/ RefundPool

SpecZk == Init /\ [][NextZk]_vars

(* ------------------------------------------------------------------------ *)
(* contracts/veilstar-brawl: actions                                         *)
(* ------------------------------------------------------------------------ *)
\* The game contract's store after the call, as the host leaves it.
BrawlCommit(st) ==
  /\ matches' = st.matches
  /\ match_salt' = st.match_salt
  /\ zk_commit' = st.zk_commit
  /\ zk_verified' = st.zk_verified
  /\ zk_match_outcome' = st.zk_match_outcome
  /\ zk_gate_required' = st.zk_gate_required
  /\ zk_verifier_contract' = st.zk_verifier_contract
  /\ zk_verifier_vk_id' = st.zk_verifier_vk_id
  /\ brawl_fee_accrued' = st.fee_accrued
  /\ brawl_last_sweep_ts' = st.last_sweep_ts
  /\ brawl_balance' = st.balance
  /\ UNCHANGED <<ledger_sequence, ledgers, betting_vars, verifier_vars>>

StartGame(first_players) ==
  \E session_id \in SessionIds, player1 \in first_players,
     player2 \in Players, hub_ok \in BOOLEAN :
    \E signers \in StartSigners(player1, player2) :
      LET r == start_game(BrawlStore, ledger_sequence, signers, hub_ok,
                          session_id, player1, player2, Points, Points)
      IN /\ Returns(r)
         /\ BrawlCommit(HostFrame(BrawlStore, r))

SubmitZkCommit(turns, commitments) ==
  \E session_id \in SessionIds, player \in Players, round \in Rounds,
     turn \in turns, commitment \in commitments :
    \E signer \in PlayerCallers(player) :
      LET r == submit_zk_commit(BrawlStore, signer, session_id, player, round,
                                turn, commitment)
          st == HostFrame(BrawlStore, r)
      IN /\ Returns(r)
         /\ Cardinality(DOMAIN st.zk_commit) <= MaxSlots
         /\ BrawlCommit(st)

SubmitZkVerification(vk_ids, proof_lens) ==
  \E session_id \in SessionIds, player \in Players, round \in Rounds,
     turn \in Turns, commitment \in GateCommitments, vk_id \in vk_ids,
     proof_len \in proof_lens, public_inputs \in GateInputs,
     verified \in BOOLEAN :
    LET r == submit_zk_verification(BrawlStore, session_id, player, round,
                                    turn, commitment, vk_id, proof_len,
                                    public_inputs, verified)
    IN /\ Returns(r)
       /\ BrawlCommit(HostFrame(BrawlStore, r))

SubmitZkMatchOutcome(vk_ids, proof_lens) ==
  \E session_id \in SessionIds, winner \in Players \cup {Admin},
     vk_id \in vk_ids, proof_len \in proof_lens,
     public_inputs \in GateInputs, verified \in BOOLEAN :
    LET r == submit_zk_match_outcome(BrawlStore, session_id, winner, vk_id,
                                     proof_len, public_inputs, verified)
    IN /\ Returns(r)
       /\ BrawlCommit(HostFrame(BrawlStore, r))

EndGame ==
  \E signer \in AdminCallers, hub_ok \in BOOLEAN, session_id \in SessionIds,
     player1_won \in BOOLEAN :
    LET r == end_game(BrawlStore, signer, hub_ok, session_id, player1_won)
    IN /\ Returns(r)
       /\ BrawlCommit(HostFrame(BrawlStore, r))

CancelMatch ==
  \E signer \in AdminCallers, hub_ok \in BOOLEAN, session_id \in SessionIds :
    LET r == cancel_match(BrawlStore, signer, hub_ok, session_id)
    IN /\ Returns(r)
       /\ BrawlCommit(HostFrame(BrawlStore, r))

SetZkGateRequired(flags) ==
  \E signer \in AdminCallers, required \in flags :
    LET r == set_zk_gate_required(BrawlStore, signer, required)
    IN /\ Returns(r)
       /\ BrawlCommit(HostFrame(BrawlStore, r))

SetZkVerifierContract ==
  \E signer \in AdminCallers :
    LET r == set_zk_verifier_contract(BrawlStore, signer, VerifierAddr)
    IN /\ Returns(r)
       /\ BrawlCommit(HostFrame(BrawlStore, r))

SetZkVerifierVkId(vk_ids) ==
  \E signer \in AdminCallers, vk_id \in vk_ids :
    LET r == set_zk_verifier_vk_id(BrawlStore, signer, vk_id)
    IN /\ Returns(r)
       /\ BrawlCommit(HostFrame(BrawlStore, r))

\* The ledger closes and the sequence number moves on.
AdvanceLedger ==
  /\ ledgers < MaxLedgers
  /\ ledger_sequence' = ledger_sequence + 1
  /\ ledgers' = ledgers + 1
  /\ UNCHANGED <<matches, match_salt, zk_commit, zk_verified,
                 zk_match_outcome, zk_gate_required, zk_verifier_contract,
                 zk_verifier_vk_id, brawl_fee_accrued, brawl_last_sweep_ts,
                 brawl_balance, betting_vars, verifier_vars>>

SubmitMove ==
  \E session_id \in SessionIds, player \in Players :
    \E signer \in PlayerCallers(player) :
      LET r == submit_move(BrawlStore, signer, session_id, player)
      IN /\ Returns(r)
         /\ matches[session_id].total_xlm_collected
              < MaxMoves * MOVE_COST_STROOPS
         /\ BrawlCommit(HostFrame(BrawlStore, r))

SubmitPowerSurge ==
  \E session_id \in SessionIds, player \in Players :
    \E signer \in PlayerCallers(player) :
      LET r == submit_power_surge(BrawlStore, signer, session_id, player)
      IN /\ Returns(r)
         /\ matches[session_id].total_xlm_collected
              < MaxMoves * MOVE_COST_STROOPS
         /\ BrawlCommit(HostFrame(BrawlStore, r))

SetMatchStake(stakes) ==
  \E signer \in AdminCallers, session_id \in SessionIds,
     stake_amount_stroops \in stakes :
    LET r == set_match_stake(BrawlStore, now, signer, session_id,
                             stake_amount_stroops)
    IN /\ Returns(r)
       /\ BrawlCommit(HostFrame(BrawlStore, r))

DepositStake ==
  \E session_id \in SessionIds, player \in Players :
    \E signer \in PlayerCallers(player) :
      LET r == deposit_stake(BrawlStore, now, signer, session_id, player)
      IN /\ Returns(r)
         /\ BrawlCommit(HostFrame(BrawlStore, r))

ExpireStake ==
  \E signer \in AdminCallers, session_id \in SessionIds, hub_ok \in BOOLEAN :
    LET r == expire_stake(BrawlStore, now, signer, hub_ok, session_id)
    IN /\ Returns(r)
       /\ BrawlCommit(HostFrame(BrawlStore, r))

BrawlSweepTreasury ==
  \E signer \in AdminCallers :
    LET r == brawl_sweep_treasury(BrawlStore, now, signer)
    IN /\ Returns(r)
       /\ BrawlCommit(HostFrame(BrawlStore, r))

\* The token's admin mints to the game contract while it holds no more than
\* the reserve.
MintToContract(amounts) ==
  \E amount \in amounts :
    /\ brawl_balance[Brawl] <= RESERVE_STROOPS
    /\ brawl_balance' = [brawl_balance EXCEPT ![Brawl] = @ + amount]
    /\ UNCHANGED <<matches, match_salt, zk_commit, zk_verified,
                   zk_match_outcome, zk_gate_required, zk_verifier_contract,
                   zk_verifier_vk_id, brawl_fee_accrued, brawl_last_sweep_ts,
                   ledger_sequence, ledgers, betting_vars, verifier_vars>>

\* What the two contracts charge: bets of an amount whose fee is exact and of
\* one whose fee is rounded, and the deposits of a match with either kind of
\* stake.
NextCharges ==
  \/ CreatePool({0})
  \/ CommitBet({MIN_BET_STROOPS, MIN_BET_STROOPS + 1},
               {make_commitment("Player1", 1)})
  \/ (matches = <<>> /\ StartGame({"p1"}))
  \/ SetMatchStake({1500, 10000000})
  \/ DepositStake

SpecCharges == Init /\ [][NextCharges]_vars

\* The treasuries of both contracts on one ledger: bets and their settlement,
\* one staked match and its end, what is minted to the game contract, the
\* sweeps, and the clock.
NextTreasury ==
  \/ CreatePool({0})
  \/ CommitBet({MIN_BET_STROOPS}, {make_commitment("Player1", 1)})
  \/ SettlePool
  \/ SweepTreasury
  \/ (matches = <<>> /\ StartGame({"p1"}))
  \/ SetMatchStake({10000000})
  \/ DepositStake
  \/ EndGame
  \/ BrawlSweepTreasury
  \/ MintToContract({RESERVE_STROOPS - 10000})
  \/ Tick

SpecTreasury == Init /\ [][NextTreasury]_vars


\* The life of a match through its stake, moves and the three ways it ends.
\* The session can be started again while the contract holds less than
\* MaxMoves moves' worth of funds, which bounds the number of moves of a run.
NextMatch ==
  \/ (brawl_balance[Brawl] < MaxMoves * MOVE_COST_STROOPS
        /\ StartGame({"p1"}))
  \/ SetMatchStake({5000000})
  \/ DepositStake
  \/ SubmitMove
  \/ SubmitPowerSurge
  \/ EndGame
  \/ CancelMatch
  \/ ExpireStake
  \/ Tick

SpecMatch == Init /\ [][NextMatch]_vars


\* The stake of a match from set_match_stake to its payout or refund, with the
\* session started again at any point; a player can pay two deposits.
NextStake ==
  \/ StartGame({"p1"})
  \/ SetMatchStake({5000000})
  \/ DepositStake
  \/ EndGame
  \/ CancelMatch
  \/ ExpireStake
  \/ Tick

SpecStake == Init /\ [][NextStake]_vars

\* The slots of the round gate: p1 starts a match against p2 (again and
\* again, in the same ledger or a later one), slots are committed and
\* verified.  The admin configures the verifier, with vk id 7 or none.
NextGate ==
  \/ StartGame({"p1"})
  \/ SubmitZkCommit(Turns, GateCommitments)
  \/ SubmitZkVerification(VkIds, {PROOF_LEN})
  \/ SetZkVerifierContract
  \/ SetZkVerifierVkId({7})
  \/ AdvanceLedger

SpecGate == Init /\ [][NextGate]_vars

\* The end of a match under the gate: one slot per player is committed and
\* verified, the outcome is bound, the match is finished or cancelled.
NextFinish ==
  \/ StartGame({"p1"})
  \/ SubmitZkCommit({1}, {1})
  \/ SubmitZkVerification({7}, {PROOF_LEN})
  \/ SubmitZkMatchOutcome({7}, {PROOF_LEN})
  \/ EndGame
  \/ CancelMatch
  \/ SetZkGateRequired(BOOLEAN)
  \/ SetZkVerifierContract
  \/ SetZkVerifierVkId({7})

SpecFinish == Init /\ [][NextFinish]_vars
(* ------------------------------------------------------------------------ *)
(* Properties                                                                *)
(* ------------------------------------------------------------------------ *)
\* The total revealed on the side the pool was settled for (0 before that).
winner_total(pool) ==
  IF pool.winner_side = SIDE_P1 THEN pool.player1_total
  ELSE IF pool.winner_side = SIDE_P2 THEN pool.player2_total
  ELSE 0

\* C1 as stated: for every pool, the payouts of the claim entrypoints plus the
\* refunds of refund_pool never exceed what commit_bet moved into escrow for
\* that pool.
C1_PayoutsWithinPoolEscrow ==
  \A p \in PoolIds : paid_out[p] + refunded[p] <= escrow_in[p]

\* C1 amended: for every pool, the refunds never exceed what commit_bet moved
\* into escrow for it, the payouts never exceed twice the amount revealed on
\* the winning side, and a pool pays claims or refunds, never both.
C1_PayoutsWithinFixedOdds ==
  \A p \in PoolIds :
    /\ refunded[p] <= escrow_in[p]
    /\ p \in DOMAIN pools => paid_out[p] <= 2 * winner_total(pools[p])
    /\ p \notin DOMAIN pools => paid_out[p] = 0 /\ refunded[p] = 0
    /\ paid_out[p] = 0 \/ refunded[p] = 0

\* A pool whose winner was paid more than the pool took in.
C1_Witness ==
  \E p \in DOMAIN pools :
    /\ paid_out[p] > escrow_in[p]
    /\ paid_out[p] = 2 * winner_total(pools[p])
\* The two claim entrypoints, called for a bet with the authorisation each
\* asks for.
ClaimCalls(pool_id, bettor) ==
  {claim_payout(Store, bettor, pool_id, bettor),
   admin_claim_payout(Store, Admin, pool_id, bettor)}

\* C2: once a claim for (pool, bettor) has returned Ok or NoPayout, every later
\* claim for the same pair fails with AlreadyClaimed and transfers nothing.
C2_SecondClaimAlreadyClaimed ==
  \A k \in claim_tried :
    \A r \in ClaimCalls(k[1], k[2]) :
      /\ r.res = "AlreadyClaimed"
      /\ HostFrame(Store, r).balance = balance
\* The public inputs that bind a settlement to the pool's match_id, the pool
\* id and the winner side, as the tests build them.
bound_inputs(pool, winner) ==
  <<pool.match_id, u32_to_bytes32(pool.pool_id), u32_to_bytes32(side_u32(winner))>>

\* C3: settle_pool_zk succeeds only if the public inputs encode exactly the
\* pool's match_id, the pool id and the winner side being settled.
C3_SettleZkBindsPublicInputs ==
  \A z \in zk_settled :
    z.public_inputs = bound_inputs(pools[z.pool_id], z.winner)

\* P holds of every call of every entrypoint with the inputs of the model, made
\* in the current state: P(op, pool_id, r), r the result of the call.
EveryCall(P(_, _, _)) ==
  /\ \A signer \in AdminCallers, mid \in MatchIds, deadline_ts \in Deadlines :
       P("create_pool", 0, create_pool(Store, signer, mid, deadline_ts))
  /\ \A pool_id \in PoolIds, bettor \in Bettors, commitment \in Commitments,
        amount \in Amounts, signer \in Signers :
       P("commit_bet", pool_id,
         commit_bet(Store, now, signer, pool_id, bettor, commitment, amount))
  /\ \A signer \in AdminCallers, pool_id \in PoolIds :
       /\ P("lock_pool", pool_id, lock_pool(Store, signer, pool_id))
       /\ P("refund_pool", pool_id, refund_pool(Store, signer, pool_id))
       /\ \A winner \in BetSide :
            P("settle_pool", pool_id, settle_pool(Store, signer, pool_id, winner))
  /\ \A pool_id \in PoolIds, bettor \in Bettors, signer \in Signers :
       /\ P("claim_payout", pool_id, claim_payout(Store, signer, pool_id, bettor))
       /\ P("admin_claim_payout", pool_id,
            admin_claim_payout(Store, signer, pool_id, bettor))
       /\ \A side \in BetSide, salt \in Salts :
            /\ P("reveal_bet", pool_id,
                 reveal_bet(Store, signer, pool_id, bettor, side, salt))
            /\ P("admin_reveal_bet", pool_id,
                 admin_reveal_bet(Store, signer, pool_id, bettor, side, salt))
  /\ \A signer \in AdminCallers, pool_id \in PoolIds, winner \in BetSide,
        vk_id \in VkIds, proof_len \in ProofLens,
        public_inputs \in PublicInputs, verified \in BOOLEAN :
       P("settle_pool_zk", pool_id,
         settle_pool_zk(Store, signer, pool_id, winner, vk_id, proof_len,
                        public_inputs, verified))
  /\ \A signer \in AdminCallers :
       /\ P("sweep_treasury", 0, sweep_treasury(Store, now, signer))
       /\ \A vk_id \in VkIds :
            P("set_zk_verifier", 0, set_zk_verifier(Store, signer, VerifierAddr, vk_id))

Terminal(pool) == pool.status \in {"Settled", "Refunded"}

C4_Call(op, pool_id, r) ==
  LET after == HostFrame(Store, r)
  IN \A q \in DOMAIN pools :
    Terminal(pools[q]) =>
      /\ after.pools[q].status = pools[q].status
      /\ after.pools[q].winner_side = pools[q].winner_side
      /\ (pool_id = q /\ op \in {"commit_bet", "lock_pool", "settle_pool",
                                 "settle_pool_zk", "refund_pool"})
           => r.res # "Ok"

\* C4: once a pool is Settled or Refunded, no commit_bet, lock_pool,
\* settle_pool, settle_pool_zk or refund_pool on it succeeds, and no call of any
\* entrypoint changes its status or its winner_side.
C4_TerminalPoolsStayTerminal == EveryCall(C4_Call)

\* A Settled and a Refunded pool, the verifier configured, so that a
\* settle_pool_zk call on either passes every check before settle_pool.
C4_Witness ==
  /\ zk_verifier # NoneVal
  /\ \E p, q \in DOMAIN pools :
       /\ pools[p].status = "Settled" /\ pools[p].bet_count > 0
       /\ pools[q].status = "Refunded"
C7_Call(op, pool_id, r) == r.res # "Ok" => HostFrame(Store, r) = Store

C10_SettleZkOnlyWhenVerified ==
  \A signer \in AdminCallers, pool_id \in PoolIds, winner \in BetSide,
     vk_id \in VkIds, proof_len \in ProofLens, public_inputs \in PublicInputs,
     verified \in BOOLEAN :
    LET r == settle_pool_zk(Store, signer, pool_id, winner, vk_id, proof_len,
                            public_inputs, verified)
        after == HostFrame(Store, r)
    IN /\ r.res = "Ok" =>
            /\ zk_verifier # NoneVal
            /\ zk_vk_id # <<>>
            /\ <<vk_id>> = zk_vk_id
            /\ proof_len = PROOF_LEN
            /\ Len(public_inputs) >= 1
            /\ verified
            /\ after.pools[pool_id].status = "Settled"
            /\ after.pools[pool_id].winner_side = side_u32(winner)
       /\ r.res # "Ok" =>
            /\ after.fee_accrued = fee_accrued
            /\ \A q \in DOMAIN pools :
                 /\ after.pools[q].status = pools[q].status
                 /\ after.pools[q].winner_side = pools[q].winner_side

\* A pool with a bet that settle_pool_zk has settled, and another that a call
\* with a rejected proof would leave unsettled.
C10_Witness ==
  /\ \E z \in zk_settled :
       /\ pools[z.pool_id].status = "Settled"
       /\ pools[z.pool_id].total_fees > 0
       /\ fee_accrued >= pools[z.pool_id].total_fees
  /\ \E p \in DOMAIN pools :
       /\ ~Terminal(pools[p])
       /\ settle_pool_zk(Store, Admin, p, "Player1", zk_vk_id[1], PROOF_LEN,
                         bound_inputs(pools[p], "Player1"), FALSE).res
            = "ZkProofInvalid"
\* The two reveal entrypoints, called for a bet with the authorisation each
\* asks for.
RevealCalls(pool_id, bettor, side, salt) ==
  {reveal_bet(Store, bettor, pool_id, bettor, side, salt),
   admin_reveal_bet(Store, Admin, pool_id, bettor, side, salt)}

(* ------------------------------------------------------------------------ *)
(* contracts/zk-groth16-verifier: the actions                                *)
(* ------------------------------------------------------------------------ *)
VerifierCommit(st) ==
  /\ verification_keys' = st.verification_keys
  /\ UNCHANGED <<betting_vars, brawl_vars>>

\* set_verification_key; keys_set counts the calls that went through.
SetVerificationKey(alphas, others) ==
  \E signer \in VerifierCallers, vk_id \in VkIds, alpha_g1 \in alphas,
     beta_g2 \in others, gamma_g2 \in others, delta_g2 \in others,
     ic \in IcLists :
    LET r == set_verification_key(VerifierStore, signer, vk_id, alpha_g1,
                                  beta_g2, gamma_g2, delta_g2, ic)
    IN /\ keys_set < MaxKeys
       /\ Returns(r)
       /\ VerifierCommit(HostFrame(VerifierStore, r))
       /\ keys_set' = keys_set + 1
       /\ UNCHANGED <<vk_used, verdicts>>

\* What a verify_round_proof call came to: "true", "false" or "HostError".
verdict(r) ==
  IF r.res # "Ok" THEN r.res ELSE IF r.val THEN "true" ELSE "false"

\* verify_round_proof, whatever it returns; the history keeps the vk id it
\* found a key under and what the call came to.
VerifyRoundProof ==
  \E vk_id \in VkIds, proof \in Proofs, public_inputs \in VerifierInputs :
    LET r == verify_round_proof(VerifierStore, vk_id, proof, public_inputs)
    IN /\ VerifierCommit(HostFrame(VerifierStore, r))
       /\ vk_used' = IF vk_id \in DOMAIN verification_keys
                       THEN vk_used \cup {vk_id} ELSE vk_used
       /\ verdicts' = verdicts \cup {<<vk_id, verdict(r)>>}
       /\ UNCHANGED keys_set

NextVerifier ==
  \/ SetVerificationKey(G1Points, {1})
  \/ VerifyRoundProof

SpecVerifier == Init /\ [][NextVerifier]_vars

\* C5: for an unrevealed bet with commitment c in a Locked pool, a reveal with
\* (side, salt) succeeds if and only if c = H(side_byte || salt); any other
\* pair fails with InvalidReveal and leaves the bet unrevealed and the pool's
\* side totals and reveal_count as they were.
C5_RevealIffCommitmentOpens ==
  \A k \in DOMAIN bets :
    (pools[k[1]].status = "Locked" /\ ~bets[k].revealed) =>
      \A side \in BetSide, salt \in Salts :
        \A r \in RevealCalls(k[1], k[2], side, salt) :
          LET after == HostFrame(Store, r)
          IN /\ r.res = "Ok" <=> bets[k].commitment = make_commitment(side, salt)
             /\ r.res = "Ok" =>
                  /\ after.bets[k].revealed
                  /\ after.bets[k].side = side_u32(side)
             /\ r.res # "Ok" =>
                  /\ r.res = "InvalidReveal"
                  /\ after.bets[k] = bets[k]
                  /\ after.pools[k[1]] = pools[k[1]]

\* A Locked pool with a bet that has been revealed and a bet that is still
\* unrevealed, for which one pair opens the commitment and another does not.
C5_Witness ==
  \E k, j \in DOMAIN bets :
    /\ k[1] = j[1] /\ pools[k[1]].status = "Locked"
    /\ bets[j].revealed /\ ~bets[k].revealed
    /\ \E side \in BetSide, salt \in Salts :
         /\ reveal_bet(Store, k[2], k[1], k[2], side, salt).res = "Ok"
         /\ reveal_bet(Store, k[2], k[1], k[2], side, 3 - salt).res = "InvalidReveal"

\* C6 as stated: a second commit_bet (with a valid amount) for a (pool, bettor)
\* that has a bet fails with AlreadyCommitted and changes nothing.
C6_SecondCommitAlreadyCommitted ==
  \A k \in DOMAIN bets :
    \A commitment \in Commitments, amount \in Amounts :
      amount >= MIN_BET_STROOPS =>
        LET r == commit_bet(Store, now, k[2], k[1], k[2], commitment, amount)
        IN r.res = "AlreadyCommitted" /\ HostFrame(Store, r) = Store

\* C6 amended: a second commit_bet for a (pool, bettor) that has a bet never
\* succeeds and changes nothing; it fails with AlreadyCommitted when the amount
\* is at least the minimum, the pool is still Open and its deadline has not
\* passed, and with the error of that earlier check otherwise.  A bettor is in
\* a pool's bettor list at most once.
C6_AtMostOneCommit ==
  /\ \A k \in DOMAIN bets :
       \A commitment \in Commitments, amount \in Amounts :
         LET r == commit_bet(Store, now, k[2], k[1], k[2], commitment, amount)
             pool == pools[k[1]]
         IN /\ r.res # "Ok"
            /\ HostFrame(Store, r) = Store
            /\ r.res = (IF amount < MIN_BET_STROOPS THEN "InvalidAmount"
                        ELSE IF pool.status # "Open" THEN "PoolNotOpen"
                        ELSE IF pool.deadline_ts > 0 /\ now > pool.deadline_ts
                          THEN "BettingDeadlinePassed"
                        ELSE "AlreadyCommitted")
  /\ \A p \in DOMAIN pool_bettors :
       \A i, j \in DOMAIN pool_bettors[p] :
         pool_bettors[p][i] = pool_bettors[p][j] => i = j

\* A bettor with a bet in an Open pool and the funds for another one, and a
\* bettor with a bet in a pool that is no longer Open.
C6_Witness ==
  /\ \E k \in DOMAIN bets :
       /\ pools[k[1]].status = "Open"
       /\ balance[k[2]] >= MIN_BET_STROOPS + calc_fee(MIN_BET_STROOPS)
  /\ \E k \in DOMAIN bets : pools[k[1]].status = "Locked"

\* The sum of the amounts of the bets with the keys in S.
RECURSIVE sum_amounts(_)
sum_amounts(S) ==
  IF S = {} THEN 0
  ELSE LET k == CHOOSE x \in S : TRUE
       IN bets[k].amount + sum_amounts(S \ {k})

bets_of(p) == {k \in DOMAIN bets : k[1] = p}
revealed_as(p, side) ==
  {k \in bets_of(p) : bets[k].revealed /\ bets[k].side = side}

\* C8: for every pool, total_pool is the sum of the amounts of its bets,
\* player1_total that of its bets revealed as Player1 and player2_total that
\* of its bets revealed as Player2.
C8_TotalsAreSums ==
  \A p \in DOMAIN pools :
    /\ pools[p].total_pool = sum_amounts(bets_of(p))
    /\ pools[p].player1_total = sum_amounts(revealed_as(p, SIDE_P1))
    /\ pools[p].player2_total = sum_amounts(revealed_as(p, SIDE_P2))

\* A pool with two bets of different amounts, one revealed on each side.
C8_Witness ==
  \E p \in DOMAIN pools :
    /\ pools[p].player1_total > 0
    /\ pools[p].player2_total > 0
    /\ pools[p].player1_total # pools[p].player2_total

\* C9: for every pool that is Open or Locked, what commit_bet has transferred
\* from the bettors into the contract for it is total_pool + total_fees.
C9_EscrowIsPoolPlusFees ==
  \A p \in DOMAIN pools :
    pools[p].status \in {"Open", "Locked"} =>
      escrow_in[p] = pools[p].total_pool + pools[p].total_fees

\* A Locked pool with two bets of different amounts.
C9_Witness ==
  \E p \in DOMAIN pools :
    /\ pools[p].status = "Locked"
    /\ pools[p].bet_count = 2
    /\ escrow_in[p] = (3 * MIN_BET_STROOPS) + (3 * calc_fee(MIN_BET_STROOPS))

\* The bet k is an unclaimed bet of a Settled pool.
Claimable(k) == pools[k[1]].status = "Settled" /\ ~bets[k].claimed
\* The bet k was revealed on the winner side of its pool.
Winning(k) == bets[k].revealed /\ bets[k].side = pools[k[1]].winner_side

\* The call r paid 2 x amount of the bet k out of the contract to its bettor
\* and returned that value.
PaidDouble(k, r) ==
  LET after == HostFrame(Store, r)
      payout == 2 * bets[k].amount
  IN /\ r.res = "Ok"
     /\ r.val = payout
     /\ after.balance[k[2]] = balance[k[2]] + payout
     /\ after.balance[Contract] = balance[Contract] - payout
     /\ after.bets[k].claimed

\* The call r reported NoPayout and transferred nothing.
NothingPaid(r) ==
  r.res = "NoPayout" /\ HostFrame(Store, r).balance = balance

\* C11 as stated: in a Settled pool a claim for an unclaimed bet revealed on
\* the winner side succeeds, transfers 2 x amount to the bettor and returns it;
\* for an unclaimed bet that is unrevealed or on the other side it transfers
\* nothing and reports NoPayout.
C11_WinnerClaimPaysDouble ==
  \A k \in DOMAIN bets :
    Claimable(k) =>
      \A r \in ClaimCalls(k[1], k[2]) :
        IF Winning(k) THEN PaidDouble(k, r) ELSE NothingPaid(r)

\* C11 amended: the claim of a winner succeeds and pays 2 x amount when the
\* contract holds at least 2 x amount of the token; when it holds less the
\* transfer fails, the call traps and nothing changes.  The claim for an
\* unrevealed or losing bet transfers nothing and reports NoPayout.
C11_WinnerClaimPaysDoubleWhenFunded ==
  \A k \in DOMAIN bets :
    Claimable(k) =>
      \A r \in ClaimCalls(k[1], k[2]) :
        IF ~Winning(k) THEN NothingPaid(r)
        ELSE IF balance[Contract] >= 2 * bets[k].amount THEN PaidDouble(k, r)
        ELSE r.res = "HostError" /\ HostFrame(Store, r) = Store

\* A Settled pool with an unclaimed winning bet the contract can pay and an
\* unclaimed losing bet.
C11_Witness ==
  \E k, j \in DOMAIN bets :
    /\ k[1] = j[1] /\ Claimable(k) /\ Claimable(j)
    /\ Winning(k) /\ balance[Contract] >= 2 * bets[k].amount
    /\ bets[j].revealed /\ ~Winning(j)

\* What refund_pool owes the bets with the keys in S: amount + fee_paid each.
RECURSIVE refund_due(_)
refund_due(S) ==
  IF S = {} THEN 0
  ELSE LET k == CHOOSE x \in S : TRUE
       IN bets[k].amount + bets[k].fee_paid + refund_due(S \ {k})

\* refund_pool called by the admin on the Open or Locked pool p: it succeeds
\* when the contract holds what the pool's bets are owed, and then every
\* bettor of the pool has received amount + fee_paid, every bet is claimed and
\* the pool is Refunded; otherwise a transfer fails and nothing changes.
C12_RefundCall(p) ==
  LET r == refund_pool(Store, Admin, p)
      after == HostFrame(Store, r)
      due == refund_due(bets_of(p))
  IN IF balance[Contract] >= due
       THEN /\ r.res = "Ok"
            /\ after.pools[p].status = "Refunded"
            /\ after.balance[Contract] = balance[Contract] - due
            /\ \A k \in bets_of(p) :
                 /\ after.bets[k].claimed
                 /\ after.balance[k[2]] =
                      balance[k[2]] + bets[k].amount + bets[k].fee_paid
       ELSE /\ r.res = "HostError"
            /\ after = Store

\* A step that stores a bet took amount + fee_paid from its bettor, and a step
\* that makes a pool Refunded has given back all that commit_bet took for it.
C12_Step ==
  /\ \A k \in DOMAIN bets' \ DOMAIN bets :
       balance[k[2]] - balance'[k[2]] = bets'[k].amount + bets'[k].fee_paid
  /\ \A p \in DOMAIN pools :
       (pools[p].status # "Refunded" /\ pools'[p].status = "Refunded") =>
         /\ refunded'[p] = escrow_in[p]
         /\ \A k \in bets_of(p) :
              balance'[k[2]] = balance[k[2]] + bets[k].amount + bets[k].fee_paid

\* C12: a successful refund_pool on a non-terminal pool transfers amount +
\* fee_paid (what commit_bet took) back to every bettor of the pool, marks
\* every bet claimed and sets status Refunded; if a refund transfer fails, no
\* bettor is refunded and the status is unchanged.
C12_RefundGivesBackDeposits ==
  /\ [](\A p \in DOMAIN pools :
          pools[p].status \in {"Open", "Locked"} => C12_RefundCall(p))
  /\ [][C12_Step]_vars

\* A Refunded pool with two bets, both given back.
C12_Witness ==
  \E p \in DOMAIN pools :
    /\ pools[p].status = "Refunded"
    /\ pools[p].bet_count = 2
    /\ refunded[p] = escrow_in[p]
    /\ \A k \in bets_of(p) : bets[k].claimed

\* The changes of status made by the step, as pairs <<old, new>>.
StatusChanges ==
  {<<pools[p].status, pools'[p].status>> :
     p \in {q \in DOMAIN pools : pools'[q].status # pools[q].status}}

\* C13 as stated: every change of a pool's status is Open->Locked,
\* Locked->Settled or Locked->Refunded.
C13_OnlyThroughLocked ==
  [][StatusChanges \subseteq {<<"Open", "Locked">>, <<"Locked", "Settled">>,
                              <<"Locked", "Refunded">>}]_vars

\* C13 amended: every change of a pool's status is Open->Locked, or from Open
\* or Locked to Settled or Refunded; a pool is created Open, never moves
\* backward and never leaves Settled or Refunded.
C13_StatusMovesForward ==
  [][/\ StatusChanges \subseteq
          {<<"Open", "Locked">>, <<"Open", "Settled">>, <<"Open", "Refunded">>,
           <<"Locked", "Settled">>, <<"Locked", "Refunded">>}
     /\ \A p \in DOMAIN pools' \ DOMAIN pools : pools'[p].status = "Open"
     /\ DOMAIN pools \subseteq DOMAIN pools']_vars

\* A pool that was settled after reveals (so through Locked) next to a pool
\* that was refunded.
C13_Witness ==
  \E p, q \in DOMAIN pools :
    /\ pools[p].status = "Settled" /\ pools[p].reveal_count > 0
    /\ pools[q].status = "Refunded"

\* C14: once a commitment is stored for a (session, salt, round, turn, player)
\* slot, no step changes the stored value of that slot, whether or not a
\* verification has been recorded for it.
C14_CommitmentNeverChanges ==
  [][\A k \in DOMAIN zk_commit :
       k \in DOMAIN zk_commit' /\ zk_commit'[k] = zk_commit[k]]_vars

\* A match that has neither a winner nor been cancelled.
Live(s) == matches[s].winner = NoneVal /\ ~matches[s].is_cancelled

\* The verification records of the session's current salt for one side.
verified_slots(s, is_p1) ==
  {k \in DOMAIN zk_verified :
     k[1] = s /\ k[2] = match_salt[s] /\ k[5] = is_p1}

\* end_game called by the admin for the live match s with the gate on.
C15_Call(s, hub_ok, player1_won) ==
  LET r == end_game(BrawlStore, Admin, hub_ok, s, player1_won)
      after == HostFrame(BrawlStore, r)
      m == matches[s]
      both_verified == m.player1_zk_verified > 0 /\ m.player2_zk_verified > 0
      has_outcome == s \in DOMAIN zk_match_outcome
      agrees == (zk_match_outcome[s].winner = m.player1) = player1_won
  IN /\ r.res = "Ok" =>
          /\ both_verified
          /\ verified_slots(s, TRUE) # {} /\ verified_slots(s, FALSE) # {}
          /\ has_outcome /\ agrees
          /\ after.matches[s].winner = zk_match_outcome[s].winner
     /\ ~both_verified => r.res = "ZkCommitRequired"
     /\ (both_verified /\ ~has_outcome) => r.res = "ZkMatchOutcomeRequired"
     /\ (both_verified /\ has_outcome /\ ~agrees) => r.res = "InvalidWinnerClaim"
     /\ r.res # "Ok" => after = BrawlStore

\* C15: with ZkGateRequired, end_game succeeds only if both players have a
\* verified slot (else ZkCommitRequired, commits or not), an outcome record
\* exists (else ZkMatchOutcomeRequired) and player1_won agrees with the
\* record's winner (else InvalidWinnerClaim); on success the match's winner
\* is the record's winner.
C15_GatedEndGame ==
  zk_gate_required =>
    \A s \in DOMAIN matches :
      Live(s) =>
        \A hub_ok \in BOOLEAN, player1_won \in BOOLEAN :
          C15_Call(s, hub_ok, player1_won)

\* A live match under the gate with both players verified and the outcome
\* bound, which end_game finishes for one flag and rejects for the other.
C15_Witness ==
  /\ zk_gate_required
  /\ \E s \in DOMAIN matches :
       /\ Live(s)
       /\ \E f \in BOOLEAN :
            /\ end_game(BrawlStore, Admin, TRUE, s, f).res = "Ok"
            /\ end_game(BrawlStore, Admin, TRUE, s, ~f).res = "InvalidWinnerClaim"

\* submit_zk_match_outcome for a session that has an outcome record: rejected
\* with nothing changed, with ZkVerificationAlreadySubmitted when the match is
\* live and the arguments pass every other check.
C16_Call(s, winner, vk_id, proof_len, public_inputs, verified) ==
  LET r == submit_zk_match_outcome(BrawlStore, s, winner, vk_id, proof_len,
                                   public_inputs, verified)
      valid == /\ proof_len = PROOF_LEN /\ Len(public_inputs) > 0
               /\ s \in DOMAIN matches /\ Live(s)
               /\ zk_verifier_vk_id # ZeroVkId /\ vk_id = zk_verifier_vk_id
               /\ winner \in {matches[s].player1, matches[s].player2}
               /\ zk_verifier_contract # NoneVal /\ verified
  IN /\ r.res # "Ok"
     /\ HostFrame(BrawlStore, r) = BrawlStore
     /\ valid => r.res = "ZkVerificationAlreadySubmitted"

\* C16: once an outcome record exists for a session, every further
\* submit_zk_match_outcome for it is rejected and no step changes or removes
\* the record; so at most one submission per session succeeds.
C16_OutcomeWrittenOnce ==
  /\ [](\A s \in DOMAIN zk_match_outcome :
          \A winner \in Players \cup {Admin}, vk_id \in GateVkIds,
             proof_len \in GateProofLens, public_inputs \in GateInputs,
             verified \in BOOLEAN :
            C16_Call(s, winner, vk_id, proof_len, public_inputs, verified))
  /\ [][\A s \in DOMAIN zk_match_outcome :
          /\ s \in DOMAIN zk_match_outcome'
          /\ zk_match_outcome'[s] = zk_match_outcome[s]]_vars

\* A live match with an outcome record for which a submission naming the other
\* player passes every check but the one for the existing record.
C16_Witness ==
  \E s \in DOMAIN zk_match_outcome :
    /\ Live(s)
    /\ \E winner \in Players :
         /\ winner # zk_match_outcome[s].winner
         /\ submit_zk_match_outcome(BrawlStore, s, winner, zk_verifier_vk_id,
                                    PROOF_LEN, <<bytes32_fill(5)>>, TRUE).res
              = "ZkVerificationAlreadySubmitted"

\* The slot of a player of the session's match under its current salt.
slot_of(s, player, round, turn) ==
  slot_key(s, match_salt[s], round, turn, player = matches[s].player1)

\* submit_zk_verification with these arguments gets as far as looking up the
\* commitment of the slot.
ReachesSlot(s, player, round, turn, proof_len) ==
  /\ round # 0 /\ turn # 0 /\ proof_len # 0
  /\ s \in DOMAIN matches /\ Live(s)
  /\ player \in {matches[s].player1, matches[s].player2}

C17_Call(s, player, round, turn, commitment, vk_id, proof_len, public_inputs, verified) ==
  LET r == submit_zk_verification(BrawlStore, s, player, round, turn,
                                  commitment, vk_id, proof_len, public_inputs,
                                  verified)
      reaches == ReachesSlot(s, player, round, turn, proof_len)
      k == slot_of(s, player, round, turn)
      stored == k \in DOMAIN zk_commit
      same == zk_commit[k] = commitment
      vk_ok == zk_verifier_vk_id # ZeroVkId => vk_id = zk_verifier_vk_id
      well_formed == /\ proof_len = PROOF_LEN /\ Len(public_inputs) > 0
                     /\ zk_verifier_contract # NoneVal
  IN /\ r.res = "Ok" => reaches /\ stored /\ same /\ vk_ok /\ verified
     /\ (reaches /\ ~stored) => r.res = "ZkCommitNotFound"
     /\ (reaches /\ stored /\ ~same) => r.res = "InvalidZkCommitment"
     /\ (reaches /\ stored /\ same /\ ~vk_ok) => r.res = "ZkProofInvalid"
     /\ (reaches /\ stored /\ same /\ vk_ok /\ well_formed /\ ~verified) =>
          r.res = "ZkProofInvalid"
     /\ r.res # "Ok" => HostFrame(BrawlStore, r) = BrawlStore

\* C17: submit_zk_verification succeeds only if a commitment is stored for the
\* slot (else ZkCommitNotFound), the supplied commitment is the stored one
\* (else InvalidZkCommitment), the vk id is the configured one when a non-zero
\* one is configured and the verifier returns true (else ZkProofInvalid); a
\* call that fails writes no verification record and leaves zk_verified alone.
C17_VerificationChecks ==
  \A s \in SessionIds, player \in Players \cup {Admin}, round \in Rounds,
     turn \in Turns, commitment \in GateCommitments, vk_id \in VkIds,
     proof_len \in GateProofLens, public_inputs \in GateInputs,
     verified \in BOOLEAN :
    C17_Call(s, player, round, turn, commitment, vk_id, proof_len,
             public_inputs, verified)

\* A live match with a committed, unverified slot and a configured non-zero vk
\* id: the verification with the stored commitment succeeds, with another
\* commitment, another vk id or a rejected proof it fails.
C17_Witness ==
  /\ zk_verifier_vk_id = 7
  /\ \E s \in DOMAIN matches, player \in Players, turn \in Turns :
       LET k == slot_of(s, player, 1, turn)
           call(c, vk, v) ==
             submit_zk_verification(BrawlStore, s, player, 1, turn, c, vk,
                                    PROOF_LEN, <<bytes32_fill(5)>>, v).res
       IN /\ Live(s) /\ turn # 0
          /\ k \in DOMAIN zk_commit /\ k \notin DOMAIN zk_verified
          /\ call(zk_commit[k], 7, TRUE) = "Ok"
          /\ call(3 - zk_commit[k], 7, TRUE) = "InvalidZkCommitment"
          /\ call(zk_commit[k], 8, TRUE) = "ZkProofInvalid"
          /\ call(zk_commit[k], 7, FALSE) = "ZkProofInvalid"

\* What the zk_verified counters of the session's match read: <<player1's,
\* player2's>>.
verified_counters(st, s) ==
  <<st.matches[s].player1_zk_verified, st.matches[s].player2_zk_verified>>

\* A valid submit_zk_verification for a slot of the live match s that already
\* has a verification record succeeds and leaves the counters and the set of
\* verified slots as they were.
C18_Resubmission(s, player, round, turn) ==
  LET k == slot_of(s, player, round, turn)
      r == submit_zk_verification(BrawlStore, s, player, round, turn,
                                  zk_commit[k], zk_verifier_vk_id, PROOF_LEN,
                                  <<bytes32_fill(5)>>, TRUE)
      after == HostFrame(BrawlStore, r)
  IN (/\ ReachesSlot(s, player, round, turn, PROOF_LEN)
      /\ k \in DOMAIN zk_commit /\ k \in DOMAIN zk_verified
      /\ zk_verifier_contract # NoneVal) =>
       /\ r.res = "Ok"
       /\ verified_counters(after, s) = verified_counters(BrawlStore, s)
       /\ DOMAIN after.zk_verified = DOMAIN zk_verified

\* C18: resubmitting submit_zk_verification for a slot that already has a
\* verification record succeeds without increasing the player's zk_verified
\* counter, and the counter of each player always equals the number of
\* distinct slots verified for that player in the match.
C18_VerifiedCounterIsSlotCount ==
  \A s \in DOMAIN matches :
    /\ \A player \in Players, round \in Rounds, turn \in Turns :
         C18_Resubmission(s, player, round, turn)
    /\ matches[s].player1_zk_verified = Cardinality(verified_slots(s, TRUE))
    /\ matches[s].player2_zk_verified = Cardinality(verified_slots(s, FALSE))

\* The commitments of the session's current salt for one side.
committed_slots(s, is_p1) ==
  {k \in DOMAIN zk_commit :
     k[1] = s /\ k[2] = match_salt[s] /\ k[5] = is_p1}

\* What the zk_commits counters of the session's match read: <<player1's,
\* player2's>>.
commit_counters(st, s) ==
  <<st.matches[s].player1_zk_commits, st.matches[s].player2_zk_commits>>

\* submit_zk_commit by a player of the live match s for a slot that already
\* has a commitment succeeds and leaves the counters and the set of committed
\* slots as they were.
C19_Resubmission(s, player, round, turn, commitment) ==
  LET k == slot_of(s, player, round, turn)
      r == submit_zk_commit(BrawlStore, player, s, player, round, turn,
                            commitment)
      after == HostFrame(BrawlStore, r)
  IN (/\ ReachesSlot(s, player, round, turn, PROOF_LEN)
      /\ k \in DOMAIN zk_commit) =>
       /\ r.res = "Ok"
       /\ commit_counters(after, s) = commit_counters(BrawlStore, s)
       /\ DOMAIN after.zk_commit = DOMAIN zk_commit

\* C19: resubmitting submit_zk_commit for a slot that already has a commitment
\* succeeds without increasing the player's zk_commits counter, and the
\* counter of each player always equals the number of distinct slots that
\* player has committed in the match.
C19_CommitCounterIsSlotCount ==
  \A s \in DOMAIN matches :
    /\ \A player \in Players, round \in Rounds, turn \in Turns,
          commitment \in GateCommitments :
         C19_Resubmission(s, player, round, turn, commitment)
    /\ matches[s].player1_zk_commits = Cardinality(committed_slots(s, TRUE))
    /\ matches[s].player2_zk_commits = Cardinality(committed_slots(s, FALSE))

\* The Groth16 equation e(A, B) = e(alpha, beta) + e(vk_x, gamma) + e(C, delta)
\* for a proof, a key and the public inputs the key has the ic for.
groth16_holds(vk, proof, public_inputs) ==
  LET vk_x == fold_inputs(vk.ic[1], vk.ic, public_inputs, 0)
  IN (proof.a * proof.b) % GroupOrder
       = ((vk.alpha_g1 * vk.beta_g2) + (vk_x * vk.gamma_g2)
          + (proof.c * vk.delta_g2)) % GroupOrder

C20_Call(vk_id, proof, public_inputs) ==
  LET r == verify_round_proof(VerifierStore, vk_id, proof, public_inputs)
      installed == vk_id \in DOMAIN verification_keys
      vk == verification_keys[vk_id]
      rejected == \/ ~installed
                  \/ proof.len # 256
                  \/ Len(public_inputs) # Len(vk.ic) - 1
  IN /\ rejected => verdict(r) = "false"
     /\ verdict(r) = "true" =>
          ~rejected /\ groth16_holds(vk, proof, public_inputs)
     /\ r.st = VerifierStore

\* C20: verify_round_proof returns false, without trapping, whenever no key is
\* installed under vk_id, the proof is not exactly 256 bytes long or the
\* number of public inputs is not the key's ic length minus one; it returns
\* true only when the pairing check over the proof, the key and the public
\* inputs holds.
C20_FailsClosed ==
  \A vk_id \in VkIds, proof \in Proofs, public_inputs \in VerifierInputs :
    C20_Call(vk_id, proof, public_inputs)

\* verify_round_proof has returned true and false under an installed key and
\* false under an id with no key, and the installed key rejects a 256-byte
\* proof that comes with the wrong number of public inputs.
C20_Witness ==
  \E vk_id \in DOMAIN verification_keys, other \in VkIds :
    /\ other \notin DOMAIN verification_keys
    /\ {<<vk_id, "true">>, <<vk_id, "false">>, <<other, "false">>}
         \subseteq verdicts
    /\ \E proof \in Proofs, public_inputs \in VerifierInputs :
         /\ proof.len = 256
         /\ Len(public_inputs) # Len(verification_keys[vk_id].ic) - 1
         /\ verdict(verify_round_proof(VerifierStore, vk_id, proof,
                                       public_inputs)) = "false"

\* C21: once the key under a vk id has been used by a verify_round_proof call,
\* no later set_verification_key call changes the key stored under that id.
C21_UsedKeyNeverChanges ==
  [][\A vk_id \in vk_used :
       /\ vk_id \in DOMAIN verification_keys'
       /\ verification_keys'[vk_id] = verification_keys[vk_id]]_vars

C22_Call(signer, vk_id, alpha_g1, beta_g2, ic) ==
  LET r == set_verification_key(VerifierStore, signer, vk_id, alpha_g1,
                                beta_g2, 1, 1, ic)
      after == HostFrame(VerifierStore, r)
  IN /\ r.res = "Ok" => signer = Admin /\ Len(ic) > 0
     /\ r.res = "Ok" =>
          after.verification_keys[vk_id]
            = [alpha_g1 |-> alpha_g1, beta_g2 |-> beta_g2, gamma_g2 |-> 1,
               delta_g2 |-> 1, ic |-> ic]
     /\ (signer = Admin /\ Len(ic) = 0) => r.res = "InvalidVk"
     /\ (signer # Admin \/ Len(ic) = 0) =>
          /\ r.res # "Ok"
          /\ after.verification_keys = verification_keys

\* C22: set_verification_key stores a key only when the caller is authorised
\* as admin and the ic list is not empty; with an empty ic list the admin's
\* call fails with InvalidVk, and whenever the call fails the key stored under
\* the vk id (if any) is unchanged.
C22_KeyStoredOnlyByAdminWithIc ==
  \A signer \in VerifierCallers, vk_id \in VkIds, alpha_g1 \in G1Points,
     beta_g2 \in KeyMaterial, ic \in IcLists :
    C22_Call(signer, vk_id, alpha_g1, beta_g2, ic)

\* A key is installed under a vk id; the admin's call with an empty ic for
\* that id is refused with InvalidVk and a non-admin's call with a good key
\* traps.
C22_Witness ==
  \E vk_id \in DOMAIN verification_keys :
    /\ keys_set > 0
    /\ set_verification_key(VerifierStore, Admin, vk_id, 2, 2, 1, 1, <<>>).res
         = "InvalidVk"
    /\ set_verification_key(VerifierStore, "mallory", vk_id, 2, 2, 1, 1,
                            <<1>>).res = "HostError"

C23_Call(pool_id, bettor, commitment, amount) ==
  LET r == commit_bet(Store, now, bettor, pool_id, bettor, commitment, amount)
      exists == pool_id \in DOMAIN pools
      pool == pools[pool_id]
      open == pool.status = "Open"
      in_time == pool.deadline_ts = 0 \/ now <= pool.deadline_ts
      enough == amount >= 1000000
  IN /\ r.res = "Ok" => exists /\ open /\ enough /\ in_time
     /\ ~enough => r.res = "InvalidAmount"
     /\ (enough /\ exists /\ ~open) => r.res = "PoolNotOpen"
     /\ (enough /\ exists /\ open /\ ~in_time) =>
          r.res = "BettingDeadlinePassed"
     /\ (/\ enough /\ exists /\ open /\ now = pool.deadline_ts
         /\ <<pool_id, bettor>> \notin DOMAIN bets
         /\ balance[bettor] >= amount + calc_fee(amount)) => r.res = "Ok"

\* The totals of a pool that is not Open are the same after the step.
C23_Step ==
  \A pool_id \in DOMAIN pools :
    pools[pool_id].status # "Open" =>
      /\ pools'[pool_id].total_pool = pools[pool_id].total_pool
      /\ pools'[pool_id].total_fees = pools[pool_id].total_fees
      /\ pools'[pool_id].bet_count = pools[pool_id].bet_count

\* C23: commit_bet succeeds only if the pool is Open (else PoolNotOpen), the
\* amount is at least 1,000,000 (else InvalidAmount) and the pool has no
\* deadline or the ledger timestamp is at most the deadline (else
\* BettingDeadlinePassed); a commit at the deadline itself is accepted; once a
\* pool has left Open its total_pool, total_fees and bet_count never change.
C23_CommitOnlyWhileOpenAndInTime ==
  /\ [](\A pool_id \in PoolIds, bettor \in Bettors,
           commitment \in Commitments, amount \in Amounts :
          C23_Call(pool_id, bettor, commitment, amount))
  /\ [][C23_Step]_vars

\* The clock has moved past the deadline of a pool that took a bet at the
\* deadline itself and has left Open since.
C23_Witness ==
  \E pool_id \in DOMAIN pools :
    /\ pools[pool_id].deadline_ts = StartTs
    /\ pools[pool_id].bet_count > 0
    /\ pools[pool_id].status # "Open"
    /\ now > StartTs

\* What a reveal of (pool, bettor, side, salt) must come to, through either
\* entrypoint, when the caller is authorised.
C24_Result(r, pool_id, bettor) ==
  LET exists == pool_id \in DOMAIN pools
      locked == pools[pool_id].status = "Locked"
      has_bet == <<pool_id, bettor>> \in DOMAIN bets
      revealed == bets[<<pool_id, bettor>>].revealed
  IN /\ r.res = "Ok" => exists /\ locked /\ has_bet /\ ~revealed
     /\ (exists /\ ~locked) => r.res = "PoolNotLocked"
     /\ (exists /\ locked /\ has_bet /\ revealed) => r.res = "AlreadyRevealed"

\* A revealed bet stays revealed, on the same side.
C24_Step ==
  \A k \in DOMAIN bets :
    bets[k].revealed =>
      /\ k \in DOMAIN bets'
      /\ bets'[k].revealed
      /\ bets'[k].side = bets[k].side

\* C24: reveal_bet and admin_reveal_bet succeed only while the pool is Locked
\* (PoolNotLocked in Open, Settled and Refunded) and only for an existing bet
\* that is not yet revealed; a second reveal fails with AlreadyRevealed, and
\* the recorded side of a revealed bet never changes.
C24_RevealOnceWhileLocked ==
  /\ [](\A pool_id \in PoolIds, bettor \in Bettors, side \in BetSide,
           salt \in Salts :
          /\ C24_Result(reveal_bet(Store, bettor, pool_id, bettor, side, salt),
                        pool_id, bettor)
          /\ C24_Result(admin_reveal_bet(Store, Admin, pool_id, bettor, side,
                                         salt),
                        pool_id, bettor))
  /\ [][C24_Step]_vars

\* A Locked pool holds a revealed bet whose reveal, offered again with the
\* pair that opened it, is refused with AlreadyRevealed.
C24_Witness ==
  \E k \in DOMAIN bets :
    /\ pools[k[1]].status = "Locked"
    /\ bets[k].revealed
    /\ \E side \in BetSide, salt \in Salts :
         /\ make_commitment(side, salt) = bets[k].commitment
         /\ reveal_bet(Store, k[2], k[1], k[2], side, salt).res
              = "AlreadyRevealed"

\* The sum of total_fees over the pools of S.
RECURSIVE sum_fees(_)
sum_fees(S) ==
  IF S = {} THEN 0
  ELSE LET p == CHOOSE x \in S : TRUE
       IN pools[p].total_fees + sum_fees(S \ {p})

\* The pools this step turns into status.
turned(status) ==
  {p \in DOMAIN pools' :
     pools'[p].status = status
     /\ (p \notin DOMAIN pools \/ pools[p].status # status)}

\* FeeAccrued grows only in a step that settles one pool that was not Settled
\* before, by that pool's total_fees; a step that refunds a pool leaves it.
C25_Step ==
  /\ fee_accrued' > fee_accrued =>
       \E p \in DOMAIN pools :
         /\ turned("Settled") = {p}
         /\ fee_accrued' = fee_accrued + pools[p].total_fees
  /\ turned("Settled") # {} =>
       fee_accrued' = fee_accrued + sum_fees(turned("Settled"))
  /\ turned("Refunded") # {} => fee_accrued' = fee_accrued

\* C25: FeeAccrued increases only when a pool is settled, by exactly that
\* pool's total_fees and at most once per pool; refund_pool leaves it
\* unchanged; FeeAccrued plus the total ever swept equals the sum of
\* total_fees over the Settled pools.
C25_FeesAccrueOncePerSettledPool ==
  /\ [](fee_accrued + swept
          = sum_fees({p \in DOMAIN pools : pools[p].status = "Settled"}))
  /\ [][C25_Step]_vars

\* The fees of a settled pool have been swept, the fees of another settled
\* pool are accrued and not yet swept.
C25_Witness ==
  /\ swept > 0
  /\ fee_accrued > 0
  /\ \E p, q \in DOMAIN pools :
       /\ p # q
       /\ pools[p].status = "Settled" /\ pools[q].status = "Settled"
       /\ fee_accrued = pools[q].total_fees

\* A pool that took a bet has been refunded and nothing is accrued or swept.
C25_RefundWitness ==
  /\ \E p \in DOMAIN pools :
       pools[p].status = "Refunded" /\ pools[p].total_fees > 0
  /\ fee_accrued = 0 /\ swept = 0

\* What the admin's sweep must come to, given the contract's LastSweepTs and
\* FeeAccrued: too early within 24h of the last sweep, nothing to sweep
\* without accrued fees, and no write or transfer when it fails.
C26_Result(r, before, last_sweep, accrued) ==
  LET early == last_sweep > 0 /\ now - last_sweep < 86400
  IN /\ early => r.res = "SweepTooEarly"
     /\ (~early /\ accrued <= 0) => r.res = "NothingToSweep"
     /\ r.res = "Ok" => ~early /\ accrued > 0
     /\ r.res # "Ok" => HostFrame(before, r) = before

\* A step that moves tokens to the treasury from either contract comes at
\* least 24h after that contract's previous sweep, and the contract records
\* its time.
C26_Step ==
  /\ swept' # swept =>
       /\ last_sweep_ts = 0 \/ now - last_sweep_ts >= 86400
       /\ last_sweep_ts' = now
  /\ brawl_balance'[Treasury] # brawl_balance[Treasury] =>
       /\ brawl_last_sweep_ts = 0 \/ now - brawl_last_sweep_ts >= 86400
       /\ brawl_last_sweep_ts' = now

\* C26: any two successful sweep_treasury calls of a contract are at least
\* 86,400 seconds of ledger time apart: a sweep less than 24h after the last
\* successful one fails with SweepTooEarly and a sweep with no accrued fees
\* fails with NothingToSweep, neither transferring anything.
C26_SweepsADayApart ==
  /\ [](/\ C26_Result(sweep_treasury(Store, now, Admin), Store,
                      last_sweep_ts, fee_accrued)
        /\ C26_Result(brawl_sweep_treasury(BrawlStore, now, Admin), BrawlStore,
                      brawl_last_sweep_ts, brawl_fee_accrued)
        /\ (swept > 0 => last_sweep_ts > 0)
        /\ (brawl_balance[Treasury] > 0 => brawl_last_sweep_ts > 0))
  /\ [][C26_Step]_vars

\* Each contract has swept twice, the second time a day after the first, and
\* has fees accrued again that it refuses to sweep so soon.
C26_Witness ==
  /\ swept = 2 * calc_fee(MIN_BET_STROOPS)
  /\ last_sweep_ts = StartTs + 86400
  /\ brawl_balance[Treasury] = 20000
  /\ brawl_last_sweep_ts = StartTs + 86400
  /\ sweep_treasury(Store, now, Admin).res = "SweepTooEarly"
  /\ brawl_sweep_treasury(BrawlStore, now, Admin).res = "SweepTooEarly"

\* f is the least integer with f * 10000 >= amount * bps.
LeastFee(f, amount, bps) ==
  /\ f * 10000 >= amount * bps
  /\ (f - 1) * 10000 < amount * bps

\* A step that stores a bet takes amount + fee from the bettor and gives it
\* to the contract; the fee is the bet's fee_paid.
C27_BetCharged ==
  \A k \in DOMAIN bets' \ DOMAIN bets :
    LET bet == bets'[k]
    IN /\ LeastFee(bet.fee_paid, bet.amount, 100)
       /\ balance[k[2]] - balance'[k[2]] = bet.amount + bet.fee_paid
       /\ balance'[Contract] - balance[Contract] = bet.amount + bet.fee_paid

\* A step that marks a player's stake paid takes stake + fee from the player
\* and gives it to the game contract.
C27_StakeCharged ==
  \A s \in DOMAIN matches :
    LET m == matches[s]
        paid(player) ==
          \/ /\ player = m.player1
             /\ ~m.player1_stake_paid /\ matches'[s].player1_stake_paid
          \/ /\ player = m.player2
             /\ ~m.player2_stake_paid /\ matches'[s].player2_stake_paid
    IN \A player \in Players :
         paid(player) =>
           LET charged == brawl_balance[player] - brawl_balance'[player]
               f == charged - m.stake_amount_stroops
           IN /\ LeastFee(f, m.stake_amount_stroops, 10)
              /\ f >= 1
              /\ brawl_balance'[Brawl] - brawl_balance[Brawl] = charged

C28_AdminRevealIsReveal ==
  \A pool_id \in PoolIds, bettor \in Bettors, side \in BetSide, salt \in Salts :
    LET own == reveal_bet(Store, bettor, pool_id, bettor, side, salt)
        adm == admin_reveal_bet(Store, Admin, pool_id, bettor, side, salt)
    IN /\ own.res = adm.res
       /\ own.val = adm.val
       /\ HostFrame(Store, own) = HostFrame(Store, adm)
       /\ reveal_bet(Store, Admin, pool_id, bettor, side, salt).res # "Ok"
       /\ admin_reveal_bet(Store, bettor, pool_id, bettor, side, salt).res
            # "Ok"

\* A Locked pool holds a bet revealed earlier and an unrevealed one that both
\* entrypoints reveal, and refuse to reveal as the other side.
C28_Witness ==
  \E k, j \in DOMAIN bets :
    /\ k[1] = j[1] /\ k # j
    /\ pools[k[1]].status = "Locked"
    /\ bets[j].revealed /\ ~bets[k].revealed
    /\ \E side, other \in BetSide :
         /\ reveal_bet(Store, k[2], k[1], k[2], side, 1).res = "Ok"
         /\ admin_reveal_bet(Store, Admin, k[1], k[2], side, 1).res = "Ok"
         /\ reveal_bet(Store, k[2], k[1], k[2], other, 1).res = "InvalidReveal"
         /\ admin_reveal_bet(Store, Admin, k[1], k[2], other, 1).res
              = "InvalidReveal"

\* The results of the eight entrypoints on session s, each called by the one
\* it asks to authorise and with arguments that pass its argument checks.
C29_LaterCalls(s) ==
  {submit_move(BrawlStore, p, s, p).res : p \in Players}
    \cup {submit_power_surge(BrawlStore, p, s, p).res : p \in Players}
    \cup {end_game(BrawlStore, Admin, TRUE, s, w).res : w \in BOOLEAN}
    \cup {submit_zk_commit(BrawlStore, p, s, p, 1, t, c).res :
            p \in Players, t \in {1, 2}, c \in GateCommitments}
    \cup {submit_zk_verification(BrawlStore, s, p, 1, t, c, k, PROOF_LEN,
                                 <<bytes32_fill(5)>>, v).res :
            p \in Players, t \in {1, 2}, c \in GateCommitments, k \in VkIds,
            v \in BOOLEAN}
    \cup {submit_zk_match_outcome(BrawlStore, s, p, k, PROOF_LEN,
                                  <<bytes32_fill(5)>>, v).res :
            p \in Players, k \in VkIds, v \in BOOLEAN}
    \cup {cancel_match(BrawlStore, Admin, TRUE, s).res}
    \cup {expire_stake(BrawlStore, now, Admin, TRUE, s).res}

C29_Ended(s) == s \in DOMAIN matches /\ matches[s].winner # NoneVal

\* C29: once end_game has succeeded for a match (its winner is recorded), in
\* that state and in every later one submit_move, submit_power_surge, end_game,
\* submit_zk_commit, submit_zk_verification, submit_zk_match_outcome,
\* cancel_match and expire_stake on the session fail with MatchAlreadyEnded,
\* and the recorded winner never changes.
C29_EndedMatchStaysEnded ==
  /\ [](\A s \in SessionIds :
          C29_Ended(s) => C29_LaterCalls(s) = {"MatchAlreadyEnded"})
  /\ [][\A s \in SessionIds :
          C29_Ended(s) =>
            /\ C29_Ended(s)'
            /\ matches'[s].winner = matches[s].winner
            /\ C29_LaterCalls(s)' = {"MatchAlreadyEnded"}]_vars

\* A match that ended with both stakes paid out.
C29_Witness ==
  \E s \in DOMAIN matches :
    /\ matches[s].winner # NoneVal
    /\ matches[s].stake_amount_stroops > 0
    /\ matches[s].total_xlm_collected > 0

\* Player p's stake for session s is marked paid.
C30_Paid(s, p) ==
  /\ s \in DOMAIN matches
  /\ \/ p = matches[s].player1 /\ matches[s].player1_stake_paid
     \/ p = matches[s].player2 /\ matches[s].player2_stake_paid

C30_Call(s, p) == deposit_stake(BrawlStore, now, p, s, p)

\* stake + fee of the match.
C30_Required(s) ==
  matches[s].stake_amount_stroops
    + stake_fee(matches[s].stake_amount_stroops, matches[s].stake_fee_bps)

C30_LateWitness ==
  \E s \in DOMAIN matches :
    /\ C30_Paid(s, "p1")
    /\ now > matches[s].stake_deadline_ts
    /\ C30_Call(s, "p1").res = "StakeDepositExpired"

\* set_match_stake by the admin on session s with every amount tried.
C31_Call(s, amount) == set_match_stake(BrawlStore, now, Admin, s, amount)

\* start_game has stored a new match under session s in this step.
C31_Started(s) ==
  /\ s \in DOMAIN matches'
  /\ \E player1, player2 \in Players :
       matches'[s] = new_match(player1, player2, Points, Points)

C32_Fresh(pool, id) ==
  /\ pool.pool_id = id
  /\ pool.status = "Open"
  /\ pool.player1_total = 0 /\ pool.player2_total = 0
  /\ pool.total_pool = 0 /\ pool.total_fees = 0
  /\ pool.bet_count = 0 /\ pool.reveal_count = 0
  /\ pool.winner_side = 255

\* A step in which the pool counter moved.
C32_Step ==
  pool_counter' # pool_counter =>
    /\ pool_counter' = pool_counter + 1
    /\ DOMAIN pools' = DOMAIN pools \cup {pool_counter'}
    /\ pool_counter' \notin DOMAIN pools
    /\ C32_Fresh(pools'[pool_counter'], pool_counter')
    /\ pool_bettors'[pool_counter'] = <<>>
    /\ \A id \in DOMAIN pools :
         pools'[id] = pools[id] /\ pool_bettors'[id] = pool_bettors[id]
    /\ bets' = bets
    /\ balance' = balance

\* C32: create_pool allocates the ids 1, 2, 3, ... in call order and never
\* reuses one; the pool counter equals the number of pools created; the new
\* pool is Open with all totals and counts zero and winner_side 255, and
\* creating it changes no pool that exists.
C32_PoolIdsInCallOrder ==
  /\ [](/\ DOMAIN pools = 1 .. pool_counter
        /\ Cardinality(DOMAIN pools) = pool_counter
        /\ \A id \in DOMAIN pools : pools[id].pool_id = id
        /\ \A signer \in AdminCallers, mid \in MatchIds, d \in Deadlines :
             LET r == create_pool(Store, signer, mid, d)
             IN IF signer = Admin
                  THEN /\ r.res = "Ok"
                       /\ r.val = pool_counter + 1
                       /\ C32_Fresh(r.st.pools[r.val], r.val)
                       /\ r.st.pools[r.val].match_id = mid
                       /\ r.st.pools[r.val].deadline_ts = d
                       /\ \A id \in DOMAIN pools : r.st.pools[id] = pools[id]
                  ELSE r.res # "Ok")
  /\ [][C32_Step /\ (\A id \in DOMAIN pools : id \in DOMAIN pools')]_vars

\* A second pool was created after the first took a bet and was settled.
C32_Witness ==
  /\ pool_counter = 2
  /\ pools[1].status = "Settled" /\ pools[1].bet_count > 0
  /\ C32_Fresh(pools[2], 2)

\* end_game by the admin on session s, with the hub's end_game call
\* succeeding or failing.
C33_Call(s, hub_ok, player1_won) ==
  end_game(BrawlStore, Admin, hub_ok, s, player1_won)

C34_Call(pool_id, bettor, commitment, amount) ==
  commit_bet(Store, now, bettor, pool_id, bettor, commitment, amount)

\* The bettor cannot pay amount + fee.
C34_TransferFails(bettor, amount) ==
  balance[bettor] < amount + calc_fee(amount)

\* C34: within commit_bet the bet record, the bettor-list entry and the pool
\* totals are written only after the transfer of amount + fee from the bettor
\* has succeeded: a call whose transfer fails traps with nothing written, no
\* bet recorded and the pool unchanged, and a call that records a bet has
\* moved amount + fee from the bettor to the contract.
C34_BetWrittenAfterTransfer ==
  /\ [](\A pool_id \in PoolIds, bettor \in Bettors,
           commitment \in Commitments, amount \in Amounts :
          LET r == C34_Call(pool_id, bettor, commitment, amount)
          IN /\ C34_TransferFails(bettor, amount) =>
                  /\ r.res # "Ok"
                  /\ r.st = Store
                  /\ HostFrame(Store, r) = Store
             /\ r.res = "Ok" =>
                  /\ <<pool_id, bettor>> \in DOMAIN r.st.bets
                  /\ r.st.balance[bettor]
                       = balance[bettor] - (amount + calc_fee(amount))
                  /\ r.st.balance[Contract]
                       = balance[Contract] + amount + calc_fee(amount))
  /\ [][\A k \in DOMAIN bets' \ DOMAIN bets :
          /\ balance'[k[2]]
               = balance[k[2]] - (bets'[k].amount + bets'[k].fee_paid)
          /\ balance'[Contract]
               = balance[Contract] + bets'[k].amount + bets'[k].fee_paid
          /\ pools'[k[1]].total_pool
               = pools[k[1]].total_pool + bets'[k].amount
          /\ pool_bettors'[k[1]] = Append(pool_bettors[k[1]], k[2])]_vars

\* A bettor who has bet in one pool cannot pay for a bet in another, open
\* pool: the call passes every check and traps at the transfer.
C34_Witness ==
  \E pool_id \in DOMAIN pools, bettor \in Bettors, amount \in Amounts :
    /\ pools[pool_id].status = "Open"
    /\ <<pool_id, bettor>> \notin DOMAIN bets
    /\ \E k \in DOMAIN bets : k[2] = bettor
    /\ amount >= MIN_BET_STROOPS
    /\ C34_TransferFails(bettor, amount)
    /\ C34_Call(pool_id, bettor, make_commitment("Player1", 1), amount).res
         = "HostError"

\* The store with the commitment of one bet blanked out.
C35_Blind(st, k) ==
  IF k \in DOMAIN st.bets
    THEN [st EXCEPT !.bets[k].commitment = make_commitment("Player1", 1)]
    ELSE st

\* C35: while a pool is Open its player1_total, player2_total and
\* reveal_count are 0 and no bet of it is revealed or has a side; commit_bet
\* changes neither side total, and what it returns and stores is the same
\* for the commitments of the two sides apart from the commitment itself.
C35_NoSideRecordedWhileOpen ==
  /\ [](\A id \in DOMAIN pools :
          pools[id].status = "Open" =>
            /\ pools[id].player1_total = 0
            /\ pools[id].player2_total = 0
            /\ pools[id].reveal_count = 0
            /\ \A k \in DOMAIN bets :
                 k[1] = id => ~bets[k].revealed /\ bets[k].side = SIDE_NONE)
  /\ [](\A pool_id \in PoolIds, bettor \in Bettors, amount \in Amounts,
           c1, c2 \in Commitments :
          LET r1 == commit_bet(Store, now, bettor, pool_id, bettor, c1, amount)
              r2 == commit_bet(Store, now, bettor, pool_id, bettor, c2, amount)
          IN /\ r1.res = r2.res
             /\ C35_Blind(r1.st, <<pool_id, bettor>>)
                  = C35_Blind(r2.st, <<pool_id, bettor>>)
             /\ r1.res = "Ok" =>
                  /\ r1.st.pools[pool_id].player1_total = 0
                  /\ r1.st.pools[pool_id].player2_total = 0)
  /\ [][\A k \in DOMAIN bets' \ DOMAIN bets :
          /\ pools'[k[1]].player1_total = pools[k[1]].player1_total
          /\ pools'[k[1]].player2_total = pools[k[1]].player2_total
          /\ pools'[k[1]].reveal_count = pools[k[1]].reveal_count]_vars

\* An Open pool holds bets committed to different sides.
C35_Witness ==
  \E k, j \in DOMAIN bets :
    /\ k[1] = j[1] /\ pools[k[1]].status = "Open"
    /\ \E t, u \in CommitSalts :
         /\ bets[k].commitment = make_commitment("Player1", t)
         /\ bets[j].commitment = make_commitment("Player2", u)

\* What the paid stakes of match m come to for account a: stake + fee for each
\* of the two stakes that is marked paid and is a's.
C36_Due(m, a) ==
  (IF m.player1 = a /\ m.player1_stake_paid THEN 1 ELSE 0)
    * (m.stake_amount_stroops + stake_fee(m.stake_amount_stroops, m.stake_fee_bps))
  + (IF m.player2 = a /\ m.player2_stake_paid THEN 1 ELSE 0)
    * (m.stake_amount_stroops + stake_fee(m.stake_amount_stroops, m.stake_fee_bps))

\* Session s becomes cancelled in this step.
C36_Cancelled(s) ==
  /\ s \in DOMAIN matches /\ ~matches[s].is_cancelled
  /\ s \in DOMAIN matches' /\ matches'[s].is_cancelled

\* C36: whenever a match becomes cancelled, through cancel_match or
\* expire_stake, every player whose stake was marked paid at that moment is
\* refunded stake + fee in the same operation, and no cancelled match keeps
\* a stake marked paid.
C36_CancelRefundsPaidStakes ==
  /\ [](\A s \in DOMAIN matches :
          matches[s].is_cancelled =>
            ~matches[s].player1_stake_paid /\ ~matches[s].player2_stake_paid)
  /\ [][\A s \in SessionIds :
          C36_Cancelled(s) =>
            \A p \in Players :
              brawl_balance'[p] = brawl_balance[p] + C36_Due(matches[s], p)]_vars

\* The same for the cancellations in which not both stakes were paid.
C36_CancelRefundsUnlessBothExpired ==
  [][\A s \in SessionIds :
       (C36_Cancelled(s)
          /\ ~(matches[s].player1_stake_paid /\ matches[s].player2_stake_paid
                 /\ brawl_balance' = brawl_balance)) =>
         \A p \in Players :
           brawl_balance'[p] = brawl_balance[p] + C36_Due(matches[s], p)]_vars

\* C37: no stake deposit is taken for a match that has a winner: once end_game
\* has succeeded for a session, set_match_stake does not open a deposit window
\* on it and no step moves funds from a player into the contract.
C37_NoDepositAfterWinner ==
  /\ [](\A s \in SessionIds, p \in Players :
          (s \in DOMAIN matches /\ matches[s].winner # NoneVal) =>
            LET r == deposit_stake(BrawlStore, now, p, s, p)
            IN HostFrame(BrawlStore, r).balance = brawl_balance)
  /\ [][\A s \in SessionIds :
          (s \in DOMAIN matches /\ matches[s].winner # NoneVal) =>
            \A p \in Players : brawl_balance'[p] >= brawl_balance[p]]_vars

\* The same for the matches that ended with a stake set.
C37_NoDepositAfterStakedWin ==
  [][\A s \in SessionIds :
       (s \in DOMAIN matches /\ matches[s].winner # NoneVal
          /\ matches[s].fee_accrued_stroops > 0) =>
         \A p \in Players : brawl_balance'[p] >= brawl_balance[p]]_vars

\* C38: for every match and each of its two players the zk_verified counter
\* is at most the zk_commits counter in every reachable state.
C38_VerifiedAtMostCommits ==
  \A s \in DOMAIN matches :
    /\ matches[s].player1_zk_verified <= matches[s].player1_zk_commits
    /\ matches[s].player2_zk_verified <= matches[s].player2_zk_commits

\* The same for the sessions whose counters count the commitments stored
\* under the session's salt (no start_game has reset them since).
C38_VerifiedAtMostCommitsWhenCounted ==
  \A s \in DOMAIN matches :
    (commit_counters(BrawlStore, s)
       = <<Cardinality(committed_slots(s, TRUE)),
           Cardinality(committed_slots(s, FALSE))>>) =>
      /\ matches[s].player1_zk_verified <= matches[s].player1_zk_commits
      /\ matches[s].player2_zk_verified <= matches[s].player2_zk_commits

\* C39: for every pool in every reachable state, bet_count is the number of
\* bet records of the pool and the length of its bettor list, the bettor list
\* holds no address twice (and holds the bettors of the records),
\* reveal_count is the number of bets with revealed = true, and
\* reveal_count <= bet_count.
C39_CountsMatchRecords ==
  \A id \in DOMAIN pools :
    LET list == pool_bettors[id]
    IN /\ pools[id].bet_count = Cardinality(bets_of(id))
       /\ pools[id].bet_count = Len(list)
       /\ \A i, j \in 1 .. Len(list) : list[i] = list[j] => i = j
       /\ {list[i] : i \in 1 .. Len(list)} = {k[2] : k \in bets_of(id)}
       /\ pools[id].reveal_count
            = Cardinality({k \in bets_of(id) : bets[k].revealed})
       /\ pools[id].reveal_count <= pools[id].bet_count

\* A pool with two bets of which one is revealed, after a claim.
C39_Witness ==
  \E id \in DOMAIN pools :
    /\ pools[id].bet_count = 2
    /\ pools[id].reveal_count = 1
    /\ pools[id].status = "Settled"
    /\ \E k \in bets_of(id) : bets[k].claimed

\* C40: for every pool in every reachable state winner_side is 0 or 1 if and
\* only if the status is Settled and is the sentinel 255 otherwise, so no
\* claim_payout or admin_claim_payout call returns InvalidWinner.
C40_WinnerSideIffSettled ==
  /\ \A id \in DOMAIN pools :
       /\ pools[id].winner_side \in {0, 1} <=> pools[id].status = "Settled"
       /\ pools[id].status # "Settled" => pools[id].winner_side = 255
       /\ pools[id].winner_side \in {0, 1, 255}
  /\ \A pool_id \in PoolIds, bettor \in Bettors :
       \A r \in ClaimCalls(pool_id, bettor) : r.res # "InvalidWinner"

\* Pools of every status side by side: one Settled with a winner and a bet
\* that can be claimed, one that is not Settled.
C40_Witness ==
  \E id, other \in DOMAIN pools :
    /\ pools[id].status = "Settled" /\ pools[id].winner_side = 1
    /\ pools[other].status \in {"Locked", "Refunded"}
    /\ \E k \in bets_of(id) : claim_payout(Store, k[2], id, k[2]).res = "Ok"
====
